---- MODULE Spec2Model ----
(***************************************************************************)
(* Model of the synchronisation and live-ingestion engine of teleye:      *)
(* the reconciliation ("smart sync") engine and its backfill, the listener *)
(* state machine kept in the status store, and the bounded fan-out of     *)
(* per-channel reconciles.                                                 *)
(*                                                                         *)
(* The variables fall in groups, driven by these specifications:          *)
(*   SpecSync      platform history, index, reconcile / backfill, jobs     *)
(*   SpecBackfill  two backfill runs with one cutoff (idempotence)         *)
(*   SpecListener  status record, monitored set, listener tasks, requests  *)
(*   SpecListenerFair  the same with the loops' polls kept scheduled       *)
(*   SpecSched     the semaphore of smart_sync_task                        *)
(*   SpecWindow    the sync_window task (sync_channel_messages_task)       *)
(*   SpecProgress  the progress reports of sync_window and reconcile_all   *)
(*   SpecIndex     the three write paths of the index, interleaved         *)
(*   SpecPreview   the smart-sync preview                                  *)
(*   SpecHandler   the event handler of the listener and the channel tasks *)
(*   SpecNormalize the two normalizers applied to one message              *)
(*   SpecJobs      the processing jobs of the listener, in any order       *)
(*   SpecSequential  start and stop requests issued one after another      *)
(***************************************************************************)
EXTENDS Integers, Sequences, FiniteSets, TLC

VARIABLES
    tg,        \* platform: channel -> set of message ids in its history
    lastId,    \* platform: channel -> highest id ever assigned
    es,        \* index "messages": document id -> document
    now,       \* wall clock read by datetime.now()
    rc,        \* the running smart_sync_channel / sync_missing_messages call
    outcome,   \* what the last call returned (<<>> while none)
    bf,        \* SpecBackfill: run counter and what the first run left
    status,    \* status store: value under listener:status (<<>> when absent)
    monitored, \* status store: members of listener:channels
    tasks,     \* listener tasks: task id -> its position and arguments
    req,       \* in-flight request handlers that span several store calls
    resp,      \* response of the last finished request
    sem,       \* smart_sync_task: semaphore, units, progress
    sw,        \* sync_channel_messages_task: request, position, progress, result
    pv,        \* preview_smart_sync: what the last preview returned
    hd,        \* handle_new_message: the event being handled, the jobs queued
    nm,        \* the last call of a normalizer: its arguments and its record
    jb         \* process_message_task: the jobs delivered and what each run returned

syncVars == <<tg, lastId, es, now, rc, outcome, bf>>
listenerVars == <<status, monitored, tasks, req, resp>>
schedVars == <<sem>>
windowVars == <<sw, pv>>
vars == <<tg, lastId, es, now, rc, outcome, bf, status, monitored, tasks, req, resp,
          sem, sw, pv, hd, nm, jb>>

\* an action of one group leaves the other groups alone
SyncOnly == UNCHANGED <<status, monitored, tasks, req, resp, sem, sw, pv, hd, nm, jb>>
ListenerOnly == UNCHANGED <<tg, lastId, es, rc, outcome, bf, sem, sw, pv, hd, nm, jb>>
SchedOnly == UNCHANGED <<tg, lastId, es, now, rc, outcome, bf,
                         status, monitored, tasks, req, resp, sw, pv, hd, nm, jb>>
WindowOnly == UNCHANGED <<tg, lastId, rc, outcome, bf,
                          status, monitored, tasks, req, resp, sem, pv, hd, nm, jb>>
PreviewOnly == UNCHANGED <<tg, lastId, es, now, rc, outcome, bf,
                           status, monitored, tasks, req, resp, sem, sw, hd, nm, jb>>
HandlerOnly == UNCHANGED <<tg, lastId, es, now, rc, outcome, bf,
                           status, tasks, req, resp, sem, sw, pv, nm, jb>>
NormalizeOnly == UNCHANGED <<tg, lastId, es, now, rc, outcome, bf,
                             status, monitored, tasks, req, resp, sem, sw, pv, hd, jb>>
JobsOnly == UNCHANGED <<rc, outcome, bf, status, monitored, tasks, req, resp,
                        sem, sw, pv, hd, nm>>

----------------------------------------------------------------------------
(* Bounds of the model *)

\* channels are 1..NumChannels
NumChannels == 1
\* message ids are 1..MaxMsgId
MaxMsgId == 3
\* datetime.now() takes the values 0..MaxClock
MaxClock == 2
\* get_messages(limit=100) of sync_missing_messages, scaled to the history
PageLimit == 2
\* listener tasks that can be launched are 1..MaxTasks
MaxTasks == 2
MaxUnits == 3
\* sync_window: size is 0..MaxSize, offset 0..MaxOffset, batch_size 1..MaxBatch
MaxSize == 2
MaxOffset == 2
MaxBatch == 2
MaxParallel == 2
\* max_parallel: int = Query(5, ge=1, le=20)
MinParallel == 1
\* the messages given to a normalizer or carried by an event are
\* 1..MaxEventId, one of each media kind; the handler takes MaxEvents events
MaxEventId == 5
MaxEvents == 2
\* process_message_task runs at most MaxRuns times, redeliveries included
MaxRuns == 3

Channels == 1..NumChannels
\* channel ids a request may carry: the channels and two ids that are not
RequestChannels == {-1, 0} \cup Channels
MsgIds == 1..MaxMsgId

\* Optional[int]: None is the empty sequence, a value v is <<v>>
None == <<>>
Some(v) == <<v>>

----------------------------------------------------------------------------
(* Helpers on sets and sequences *)

Max(S) == CHOOSE x \in S : \A y \in S : y <= x

Min(S) == CHOOSE x \in S : \A y \in S : x <= y

RECURSIVE SortDesc(_)
SortDesc(S) == IF S = {} THEN <<>> ELSE <<Max(S)>> \o SortDesc(S \ {Max(S)})

Take(s, n) == SubSeq(s, 1, IF n < Len(s) THEN n ELSE Len(s))

Range(s) == {s[i] : i \in 1..Len(s)}

RECURSIVE SumSeq(_)
SumSeq(s) == IF s = <<>> THEN 0 ELSE Head(s) + SumSeq(Tail(s))

----------------------------------------------------------------------------
(* Platform *)

\* media carried by a message: fixed by its id so that every kind occurs
MediaOf(m) ==
    CASE m % 5 = 1 -> "none"
      [] m % 5 = 2 -> "photo"
      [] m % 5 = 3 -> "document_image"
      [] m % 5 = 4 -> "document_video"
      [] OTHER     -> "webpage"

\* sender entity of a message: fixed by its id
SenderOf(m) ==
    CASE m % 4 = 1 -> "user"
      [] m % 4 = 2 -> "absent_unresolvable"
      [] m % 4 = 3 -> "channel"
      [] OTHER     -> "absent_no_id"

\* telethon get_messages(peer, limit, offset_id): newest first, ids below
\* offset_id (offset_id = 0: from the newest)
GetMessages(c, limit, offset_id) ==
    Take(SortDesc({m \in tg[c] : offset_id = 0 \/ m < offset_id}), limit)

\* a channel receives a message with a fresh id
PlatformPost(c) ==
    /\ lastId[c] < MaxMsgId
    /\ lastId' = [lastId EXCEPT ![c] = @ + 1]
    /\ tg' = [tg EXCEPT ![c] = @ \cup {lastId[c] + 1}]
    /\ UNCHANGED <<es, now, rc, outcome, bf>>
    /\ SyncOnly

\* a message is deleted on the platform; its id is never reused
PlatformDelete(c, m) ==
    /\ m \in tg[c]
    /\ tg' = [tg EXCEPT ![c] = @ \ {m}]
    /\ UNCHANGED <<lastId, es, now, rc, outcome, bf>>
    /\ SyncOnly

----------------------------------------------------------------------------
(* Index *)

\* mutant: the document id also carries the time of indexing
DocIdWithTime(c, m) == ToString(c) \o "_" \o ToString(m) \o "_" \o ToString(now)

\* "_id": f"{message.channel_id}_{message.message_id}"
DocId(c, m) == ToString(c) \o "_" \o ToString(m)

IndexedIds(c) == {es[d].message_id : d \in {x \in DOMAIN es : es[x].channel_id = c}}

\* mutant: the actions carry no _id and the store generates one per write
UpsertAutoId(index, docs) ==
    [d \in DOMAIN index \cup
           {DocId(r.channel_id, r.message_id) \o "_" \o ToString(r.indexed_at) : r \in docs} |->
        IF \E r \in docs : DocId(r.channel_id, r.message_id) \o "_" \o ToString(r.indexed_at) = d
        THEN CHOOSE r \in docs :
                 DocId(r.channel_id, r.message_id) \o "_" \o ToString(r.indexed_at) = d
        ELSE index[d]]

\* mutant: a bulk request replaces the content of the index
UpsertReplacing(index, docs) ==
    [d \in {DocId(r.channel_id, r.message_id) : r \in docs} |->
        CHOOSE r \in docs : DocId(r.channel_id, r.message_id) = d]

\* async_bulk: every action written overwrites the document of its _id
Upsert(index, docs) ==
    [d \in DOMAIN index \cup {DocId(r.channel_id, r.message_id) : r \in docs} |->
        IF \E r \in docs : DocId(r.channel_id, r.message_id) = d
        THEN CHOOSE r \in docs : DocId(r.channel_id, r.message_id) = d
        ELSE index[d]]

\* mutant: the except branch reports the actions as stored
BulkCountsAllStored(n, raised) == <<n, 0>>

\* mutant: the except branch reports nothing
BulkCountsNoneOnError(n, raised) == IF raised THEN <<0, 0>> ELSE <<n, 0>>

\* execute_elasticsearch_bulk_insert: (success, failed). async_bulk raises
\* when a document fails or the request is lost; the handler then reports
\* every action as failed.
BulkCounts(n, raised) == IF raised THEN <<0, n>> ELSE <<n, 0>>

\* what the store may keep of a bulk request: any part of it, and all of it
\* when the call returns normally
BulkWrites(docs) == {w \in [written : SUBSET docs, raised : BOOLEAN] :
                        ~w.raised => w.written = docs}

----------------------------------------------------------------------------
(* Normalisation on the backfill path: services/sync_service.py *)

\* what the environment does to one process_message call
EnvOutcomes == {"ok", "empty_download", "download_error", "error"}

\* sender_name of process_message: only the sender entity is consulted
BackfillSenderName(m) ==
    CASE SenderOf(m) = "user"    -> "First Last"
      [] SenderOf(m) = "channel" -> "Title"
      [] OTHER                   -> ""

\* file extension chosen from the document's mime type
FileExtension(m) == IF MediaOf(m) = "document_image" THEN "png" ELSE "jpg"

\* object_name = f"channel_{channel_id}/message_{tg_msg.id}.{file_extension}"
ObjectName(c, m) ==
    "channel_" \o ToString(c) \o "/message_" \o ToString(m) \o "." \o FileExtension(m)

\* MinIOManager.upload_image returns the public url of the object
MinioUrl(c, m) == "http://minio/bucket/" \o ObjectName(c, m)

IsPhotoOrDocument(m) == MediaOf(m) \in {"photo", "document_image", "document_video"}

\* image_urls of process_message
BackfillImageUrls(c, m, sync_images, env) ==
    IF sync_images /\ MediaOf(m) # "none"
    THEN IF IsPhotoOrDocument(m) /\ env # "empty_download"
         THEN <<MinioUrl(c, m)>> ELSE <<>>
    ELSE IF ~sync_images /\ MediaOf(m) # "none"
    THEN CASE MediaOf(m) = "photo"          -> <<"telegram_photo_" \o ToString(m)>>
           [] MediaOf(m) = "document_image" -> <<"telegram_document_" \o ToString(m)>>
           [] OTHER                         -> <<>>
    ELSE <<>>

\* process_message: None when anything raised, else the MessageInfo
ProcessMessage(c, m, sync_images, env, t) ==
    IF env = "error"
       \/ (env = "download_error" /\ sync_images /\ IsPhotoOrDocument(m))
    THEN None
    ELSE Some([channel_id |-> c,
               message_id |-> m,
               sender_name |-> BackfillSenderName(m),
               image_urls |-> BackfillImageUrls(c, m, sync_images, env),
               images |-> IF BackfillImageUrls(c, m, sync_images, env) # <<>>
                             /\ sync_images
                          THEN <<ObjectName(c, m)>> ELSE <<>>,
               indexed_at |-> t])

----------------------------------------------------------------------------
(* Reconciliation: services/smart_sync_service.py *)

IdleRc == [pc |-> "idle"]

\* mutant: the index is tested before the platform
SmartSyncActionIndexFirst(tg_last_id, es_last_id) ==
    IF es_last_id = None THEN "full_sync"
    ELSE IF tg_last_id = None THEN "skip"
    ELSE IF tg_last_id[1] = es_last_id[1] THEN "skip"
    ELSE IF tg_last_id[1] > es_last_id[1] THEN "incremental_sync"
    ELSE "skip"

\* the branch smart_sync_channel takes, tested in the order of the code
SmartSyncAction(tg_last_id, es_last_id) ==
    IF tg_last_id = None THEN "skip"
    ELSE IF es_last_id = None THEN "full_sync"
    ELSE IF tg_last_id[1] = es_last_id[1] THEN "skip"
    ELSE IF tg_last_id[1] > es_last_id[1] THEN "incremental_sync"
    ELSE "skip"

\* the reason text of the branch taken
SmartSyncReason(tg_last_id, es_last_id) ==
    IF tg_last_id = None THEN "Channel not accessible on Telegram"
    ELSE IF es_last_id = None THEN "No data in Elasticsearch"
    ELSE IF tg_last_id[1] = es_last_id[1] THEN "Last message IDs are equal"
    ELSE IF tg_last_id[1] > es_last_id[1] THEN "Synced messages"
    ELSE "Elasticsearch has higher message ID than Telegram"

\* the after_message_id handed to sync_missing_messages
SyncCutoff(es_last_id) == IF es_last_id = None THEN 0 ELSE es_last_id[1]

\* get_last_message_id_telegram: None when the call raises or returns nothing
TelegramLastIds(c) ==
    {None} \cup (IF tg[c] = {} THEN {} ELSE {Some(Max(tg[c]))})

\* get_last_message_id_elasticsearch: None when the search raises or has no hit
ElasticsearchLastIds(c) ==
    {None} \cup (IF IndexedIds(c) = {} THEN {} ELSE {Some(Max(IndexedIds(c)))})

\* mutant: every skip is a success
SkipOutcomeSuccess(c, tg_last_id, es_last_id) ==
    [channel_id |-> c, action |-> "skip",
     reason |-> SmartSyncReason(tg_last_id, es_last_id), success |-> TRUE,
     messages_processed |-> 0]

\* the dict returned by a branch that does not sync
SkipOutcome(c, tg_last_id, es_last_id) ==
    IF tg_last_id = None
    THEN [channel_id |-> c, action |-> "skip",
          reason |-> SmartSyncReason(tg_last_id, es_last_id), success |-> FALSE]
    ELSE [channel_id |-> c, action |-> "skip",
          reason |-> SmartSyncReason(tg_last_id, es_last_id), success |-> TRUE,
          messages_processed |-> 0]

\* the dict of the except branch of smart_sync_channel
ErrorOutcome(c) ==
    [channel_id |-> c, action |-> "error", reason |-> "exception text",
     success |-> FALSE]

\* smart_sync_channel up to its first call of sync_missing_messages: reads the
\* platform's last id
RcStart(c, sync_images) ==
    /\ rc.pc = "idle"
    /\ \E t \in TelegramLastIds(c) :
        rc' = [pc |-> "read_es", caller |-> "smart_sync_channel",
               channel_id |-> c, sync_images |-> sync_images,
               tg_last_id |-> t, tg_at_start |-> tg[c], last_at_start |-> lastId[c],
               es_at_start |-> IndexedIds(c)]
    /\ outcome' = None
    /\ UNCHANGED <<tg, lastId, es, now, bf>>
    /\ SyncOnly

\* reads the index's last id and branches
RcReadEs ==
    /\ rc.pc = "read_es"
    /\ \E e \in ElasticsearchLastIds(rc.channel_id) :
        LET action == SmartSyncAction(rc.tg_last_id, e) IN
        IF action = "skip"
        THEN /\ rc' = [rc EXCEPT !.pc = "done"] @@ [es_last_id |-> e]
             /\ outcome' = Some(SkipOutcome(rc.channel_id, rc.tg_last_id, e))
        ELSE /\ rc' = [rc EXCEPT !.pc = "fetch"] @@
                      [es_last_id |-> e, action |-> action,
                       after_message_id |-> SyncCutoff(e),
                       offset_id |-> 0, processed_messages |-> <<>>,
                       images_downloaded |-> 0, images_failed |-> 0,
                       retained |-> {}, failed |-> {}]
             /\ outcome' = outcome
    /\ UNCHANGED <<tg, lastId, es, now, bf>>
    /\ SyncOnly

\* the for loop of sync_missing_messages over one page: the MessageInfo kept,
\* in page order, for the ids above the cutoff
RECURSIVE ProcessPageAborting(_, _, _, _, _)
RECURSIVE ProcessPage(_, _, _, _, _)
\* mutant: the first message that gives no record ends the page
ProcessPageAborting(c, ids, sync_images, env, t) ==
    IF ids = <<>> \/ ProcessMessage(c, Head(ids), sync_images, env[Head(ids)], t) = None
    THEN <<>>
    ELSE ProcessMessage(c, Head(ids), sync_images, env[Head(ids)], t)
         \o ProcessPageAborting(c, Tail(ids), sync_images, env, t)

ProcessPage(c, ids, sync_images, env, t) ==
    IF ids = <<>> THEN <<>>
    ELSE ProcessMessage(c, Head(ids), sync_images, env[Head(ids)], t)
         \o ProcessPage(c, Tail(ids), sync_images, env, t)

\* mutant: the loop breaks below the cutoff only
RetainedInclusive(page, after_message_id) ==
    SelectSeq(page, LAMBDA m : m >= after_message_id)

\* the ids of a page that the loop reaches before it breaks at the cutoff
Retained(page, after_message_id) == SelectSeq(page, LAMBDA m : m > after_message_id)

\* images_downloaded += len(message_info.image_urls) when sync_images
ImagesDownloaded(records, sync_images) ==
    IF sync_images THEN SumSeq([i \in 1..Len(records) |-> Len(records[i].image_urls)])
    ELSE 0

\* the messages for which process_message returns None: it has caught an
\* exception and logged it
NoRecord(c, ids, sync_images, env, t) ==
    {m \in ids : ProcessMessage(c, m, sync_images, env[m], t) = None}

\* one iteration of the while loop of sync_missing_messages; retained and
\* failed remember which messages were handed to process_message and which
\* of them gave no record
RcFetchPage ==
    /\ rc.pc = "fetch"
    /\ \/ \* get_messages raises: the exception reaches smart_sync_channel
          /\ rc' = [rc EXCEPT !.pc = "done"]
          /\ outcome' = Some(IF rc.caller = "smart_sync_channel"
                              THEN ErrorOutcome(rc.channel_id)
                              ELSE [raised |-> "exception text"])
          /\ now' = now
       \/ LET page == GetMessages(rc.channel_id, PageLimit, rc.offset_id)
              kept == Retained(page, rc.after_message_id)
              found_cutoff == Len(kept) < Len(page)
          IN
          /\ kept # <<>> => now < MaxClock
          /\ now' = IF kept # <<>> THEN now + 1 ELSE now
          /\ \E env \in [Range(kept) -> EnvOutcomes] :
                LET records == ProcessPage(rc.channel_id, kept, rc.sync_images, env, now)
                IN  rc' = [rc EXCEPT
                        !.pc = IF page = <<>> \/ found_cutoff THEN "bulk" ELSE "fetch",
                        !.offset_id = IF page = <<>> \/ found_cutoff
                                      THEN @ ELSE page[Len(page)],
                        !.processed_messages = @ \o records,
                        !.images_downloaded =
                            @ + ImagesDownloaded(records, rc.sync_images),
                        !.retained = @ \cup Range(kept),
                        !.failed = @ \cup NoRecord(rc.channel_id, Range(kept),
                                                   rc.sync_images, env, now)]
          /\ outcome' = outcome
    /\ UNCHANGED <<tg, lastId, es, bf>>
    /\ SyncOnly

\* the dict returned by sync_missing_messages
SyncResult(r, counts) ==
    [messages_processed |-> Len(r.processed_messages),
     images_downloaded |-> r.images_downloaded,
     images_failed |-> r.images_failed,
     elasticsearch_success |-> counts[1],
     elasticsearch_failed |-> counts[2]]

\* the dict smart_sync_channel returns around it; a direct caller of
\* sync_missing_messages gets the inner dict
SyncOutcome(r, counts) ==
    IF r.caller = "smart_sync_channel"
    THEN [channel_id |-> r.channel_id, action |-> r.action,
          reason |-> SmartSyncReason(r.tg_last_id, r.es_last_id),
          success |-> TRUE] @@ SyncResult(r, counts)
    ELSE SyncResult(r, counts)

\* the bulk insert that ends sync_missing_messages, and the return
RcBulk ==
    /\ rc.pc = "bulk"
    /\ IF rc.processed_messages = <<>>
       THEN /\ es' = es
            /\ outcome' = Some(SyncOutcome(rc, <<0, 0>>))
       ELSE \E w \in BulkWrites(Range(rc.processed_messages)) :
            /\ es' = Upsert(es, w.written)
            /\ outcome' = Some(SyncOutcome(rc,
                              BulkCounts(Len(rc.processed_messages), w.raised)))
    /\ rc' = [rc EXCEPT !.pc = "done"]
    /\ UNCHANGED <<tg, lastId, now, bf>>
    /\ SyncOnly

\* the task is revoked with terminate=True: it ends where it stands, and a
\* bulk request under way may have been applied in part
RcCancel ==
    /\ rc.pc \in {"read_es", "fetch", "bulk"}
    /\ IF rc.pc = "bulk"
       THEN \E written \in SUBSET Range(rc.processed_messages) :
                es' = Upsert(es, written)
       ELSE es' = es
    /\ rc' = IdleRc
    /\ outcome' = None
    /\ UNCHANGED <<tg, lastId, now, bf>>
    /\ SyncOnly

\* the result has been read; the next call may start
RcReset ==
    /\ rc.pc = "done"
    /\ rc' = IdleRc
    /\ outcome' = None
    /\ UNCHANGED <<tg, lastId, es, now, bf>>
    /\ SyncOnly

----------------------------------------------------------------------------
(* Live path: services/listener_service.py, tasks/listener_tasks.py *)

\* sender_name of process_single_message_enhanced
LiveSenderName(m) ==
    CASE SenderOf(m) = "user"                -> "First Last"
      [] SenderOf(m) = "channel"             -> "Title"
      [] SenderOf(m) = "absent_unresolvable" -> "User_" \o ToString(m)
      [] OTHER                               -> "Unknown"

\* image_urls of process_single_message_enhanced: a failed download is logged
\* and the record is kept without media
LiveImageUrls(c, m, download_images, env) ==
    IF download_images /\ MediaOf(m) # "none"
    THEN IF IsPhotoOrDocument(m) /\ env \notin {"empty_download", "download_error"}
         THEN <<MinioUrl(c, m)>> ELSE <<>>
    ELSE IF MediaOf(m) # "none"
    THEN CASE MediaOf(m) = "photo"          -> <<"telegram_photo_" \o ToString(m)>>
           [] MediaOf(m) = "document_image" -> <<"telegram_document_" \o ToString(m)>>
           [] OTHER                         -> <<>>
    ELSE <<>>

\* process_single_message_enhanced
ProcessSingleMessageEnhanced(c, m, download_images, env, t) ==
    IF env = "error" THEN None
    ELSE Some([channel_id |-> c,
               message_id |-> m,
               sender_name |-> LiveSenderName(m),
               image_urls |-> LiveImageUrls(c, m, download_images, env),
               images |-> IF LiveImageUrls(c, m, download_images, env) # <<>>
                             /\ download_images
                          THEN <<ObjectName(c, m)>> ELSE <<>>,
               indexed_at |-> t])

\* handle_new_message drops an event with a photo or document when
\* download_images is off
\* mutant: every channel event is dispatched
DispatchedAlways(m, download_images) == TRUE

Dispatched(m, download_images) == download_images \/ ~IsPhotoOrDocument(m)

\* process_message_task for the event of message m of channel c: fetch the
\* message again, normalise it, store it
ProcessMessageTask(c, m, download_images) ==
    /\ m <= lastId[c]
    /\ Dispatched(m, download_images)
    /\ \E info \in {None} \cup
                    {ProcessSingleMessageEnhanced(c, m, download_images, env, now) :
                        env \in IF m \in tg[c] THEN EnvOutcomes ELSE {}} :
           IF info = None
           THEN es' = es /\ now' = now
           ELSE /\ now < MaxClock
                /\ now' = now + 1
                /\ \E written \in {w.written : w \in BulkWrites({info[1]})} :
                       es' = Upsert(es, written)
    /\ UNCHANGED <<tg, lastId, rc, outcome, bf>>
    /\ SyncOnly

----------------------------------------------------------------------------
(* Listener state in the status store: services/listener_service.py *)

\* dict.get(key, default)
Get(d, key, default) == IF key \in DOMAIN d THEN d[key] ELSE default

\* dict.update(u)
Update(d, u) == u @@ d

\* what get_listener_status returns when the key is absent
DefaultStatus ==
    [is_running |-> FALSE, download_images |-> TRUE, monitored_channels |-> 0,
     channels |-> {}, started_at |-> None]

\* mutant: the stored value is never found
GetListenerStatusAbsent == DefaultStatus

\* get_listener_status: json.loads of the stored value, or the default
GetListenerStatus == IF status = None THEN DefaultStatus ELSE status

IsRunning(st) == Get(st, "is_running", FALSE)

\* the id celery gives a task
TaskId(t) == "task-" \o ToString(t)

NoTask == [pc |-> "none", download_images |-> FALSE, origin |-> "none"]

FreeTasks == {t \in 1..MaxTasks : tasks[t].pc = "none"}

\* start_listener_task.delay(download_images=d): the task is queued
Launch(t, d, origin) ==
    [tasks EXCEPT ![t] = [pc |-> "queued", download_images |-> d, origin |-> origin]]

\* time passes
Tick ==
    /\ now < MaxClock
    /\ now' = now + 1
    /\ UNCHANGED <<status, monitored, tasks, req, resp>>
    /\ ListenerOnly

----------------------------------------------------------------------------
(* Listener requests: routers/listener_router.py, tasks/listener_tasks.py,
   main.py *)

\* mutant: a start is also refused while a launched task has not ended
StartRejectedWhileLaunched(st) ==
    IsRunning(st) \/ \E t \in 1..MaxTasks : tasks[t].pc \in {"queued", "running"}

\* the test start_listener makes on the status it has read
StartRejected(st) == IsRunning(st)

\* POST /listener/start
StartRequest(d) ==
    /\ IF StartRejected(GetListenerStatus)
       THEN /\ resp' = [op |-> "start", status |-> "already_running",
                        task_id |-> Get(GetListenerStatus, "task_id", "unknown")]
            /\ tasks' = tasks
       ELSE \E t \in FreeTasks :
            /\ t = Min(FreeTasks)
            /\ tasks' = Launch(t, d, "start")
            /\ resp' = [op |-> "start", status |-> "starting", task_id |-> TaskId(t)]
    /\ UNCHANGED <<status, monitored, req, now>>
    /\ ListenerOnly

\* the status start_listener_task persists once the channels are discovered
RunningStatus(t, d, channels) ==
    [is_running |-> TRUE, download_images |-> d,
     monitored_channels |-> Cardinality(channels), channels |-> channels,
     started_at |-> Some(now), task_id |-> TaskId(t)]

\* start_listener_task up to its loop: discover_channels adds what it finds to
\* the monitored set, then the Running status is persisted
TaskStart(t, discovered) ==
    /\ tasks[t].pc = "queued"
    /\ monitored' = monitored \cup discovered
    /\ status' = RunningStatus(t, tasks[t].download_images, discovered)
    /\ tasks' = [tasks EXCEPT ![t].pc = "running"]
    /\ UNCHANGED <<req, resp, now>>
    /\ ListenerOnly


\* the test of the loop: if not current_status.get("is_running", False): break
LoopBreaks(st) == ~IsRunning(st)

\* one iteration of the while loop of run_listener: poll the status, leave
\* when the flag is cleared, else catch up and sleep
TaskPoll(t) ==
    /\ tasks[t].pc = "running"
    /\ tasks' = IF LoopBreaks(GetListenerStatus)
                THEN [tasks EXCEPT ![t].pc = "stopped"] ELSE tasks
    /\ UNCHANGED <<status, monitored, req, resp, now>>
    /\ ListenerOnly

\* mutant: the failure handler leaves out the error
FailedStatusNoError ==
    [is_running |-> FALSE, download_images |-> FALSE, monitored_channels |-> 0,
     channels |-> {}, stopped_at |-> Some(now)]

\* the status ListenerTask.on_failure persists
FailedStatus ==
    [is_running |-> FALSE, download_images |-> FALSE, monitored_channels |-> 0,
     channels |-> {}, error |-> "exception text", stopped_at |-> Some(now)]

\* client.start() or client.catch_up() raises: the task re-raises and celery
\* calls on_failure
TaskFail(t) ==
    /\ tasks[t].pc \in {"queued", "running"}
    /\ tasks' = [tasks EXCEPT ![t].pc = "failed"]
    /\ status' = FailedStatus
    /\ UNCHANGED <<monitored, req, resp, now>>
    /\ ListenerOnly

\* mutant: the stop forgets the stored policy
StoppedStatusDefaultPolicy(download_images) ==
    [is_running |-> FALSE, download_images |-> TRUE, monitored_channels |-> 0,
     channels |-> {}, stopped_at |-> Some(now)]

\* the status stop_listener_task persists; download_images is what
\* status.get("download_images", True) gave on the status it has read
StoppedStatus(download_images) ==
    [is_running |-> FALSE, download_images |-> download_images,
     monitored_channels |-> 0, channels |-> {}, stopped_at |-> Some(now)]

\* stop_listener_task: reads the status; not running is answered at once
StopRead ==
    /\ req.stop = None
    /\ IF IsRunning(GetListenerStatus)
       THEN /\ req' = [req EXCEPT !.stop =
                           Some(Get(GetListenerStatus, "download_images", TRUE))]
            /\ resp' = resp
       ELSE /\ req' = req
            /\ resp' = [op |-> "stop", status |-> "not_running"]
    /\ UNCHANGED <<status, monitored, tasks, now>>
    /\ ListenerOnly

\* stop_listener_task: writes the stopped status and returns
StopWrite ==
    /\ req.stop # None
    /\ status' = StoppedStatus(req.stop[1])
    /\ req' = [req EXCEPT !.stop = None]
    /\ resp' = [op |-> "stop", status |-> "stopping"]
    /\ UNCHANGED <<monitored, tasks, now>>
    /\ ListenerOnly

\* mutant: the relaunch takes the default policy
ResumePolicyDefault(st) == TRUE

\* download_images = status.get("download_images", True)
ResumePolicy(st) == Get(st, "download_images", TRUE)

\* resume_listener_if_needed at process startup: reads the status and, when it
\* says running, launches the listener task
ResumeRead ==
    /\ req.resume = None
    /\ IF Get(GetListenerStatus, "is_running", TRUE)
       THEN \E t \in FreeTasks :
            /\ t = Min(FreeTasks)
            /\ tasks' = Launch(t, ResumePolicy(GetListenerStatus), "resume")
            /\ req' = [req EXCEPT !.resume = Some(Update(GetListenerStatus,
                          [task_id |-> TaskId(t), started_at |-> Some(now)]))]
       ELSE UNCHANGED <<tasks, req>>
    /\ UNCHANGED <<status, monitored, resp, now>>
    /\ ListenerOnly

\* resume_listener_if_needed: writes the status it has read, updated
ResumeWrite ==
    /\ req.resume # None
    /\ status' = req.resume[1]
    /\ req' = [req EXCEPT !.resume = None]
    /\ UNCHANGED <<monitored, tasks, resp, now>>
    /\ ListenerOnly

\* add_channel_task / remove_channel_task: change the monitored set and read
\* the status
ChanRead(op, c) ==
    /\ req.chan = None
    /\ monitored' = IF op = "add" THEN monitored \cup {c} ELSE monitored \ {c}
    /\ req' = [req EXCEPT !.chan = Some([status |-> GetListenerStatus,
                                         op |-> op, channel_id |-> c])]
    /\ UNCHANGED <<status, tasks, resp, now>>
    /\ ListenerOnly

\* add_channel_task / remove_channel_task: read the monitored set and write
\* the status back with the new channel list
\* mutant: the status is written back with the listener marked stopped
ChanWriteStopped ==
    /\ req.chan # None
    /\ status' = Update(req.chan[1].status,
                        [monitored_channels |-> Cardinality(monitored),
                         channels |-> monitored, is_running |-> FALSE])
    /\ req' = [req EXCEPT !.chan = None]
    /\ UNCHANGED <<monitored, tasks, resp, now>>
    /\ ListenerOnly

\* mutant: the status is written back as it was read
ChanWriteAsRead ==
    /\ req.chan # None
    /\ status' = req.chan[1].status
    /\ req' = [req EXCEPT !.chan = None]
    /\ UNCHANGED <<monitored, tasks, resp, now>>
    /\ ListenerOnly

ChanWrite ==
    /\ req.chan # None
    /\ status' = Update(req.chan[1].status,
                        [monitored_channels |-> Cardinality(monitored),
                         channels |-> monitored])
    /\ req' = [req EXCEPT !.chan = None]
    /\ UNCHANGED <<monitored, tasks, resp, now>>
    /\ ListenerOnly

----------------------------------------------------------------------------
(* SpecSync: platform, index, one reconcile at a time, live jobs *)

InitListener ==
    /\ status = None
    /\ monitored = {}
    /\ tasks = [t \in 1..MaxTasks |-> NoTask]
    /\ req = [stop |-> None, resume |-> None, chan |-> None]
    /\ resp = [op |-> "none", status |-> "none"]

InitSched == sem = [pc |-> "idle"]

InitWindow == sw = [pc |-> "idle"] /\ pv = None

\* no event is being handled, no job has been queued
InitHandler == hd = [pc |-> "idle", jobs |-> <<>>, last |-> None, count |-> 0]

InitNormalize == nm = [pc |-> "idle"]

\* no job has been delivered
InitJobs == jb = [pending |-> {}, done |-> <<>>]

InitSync ==
    /\ tg = [c \in Channels |-> {}]
    /\ lastId = [c \in Channels |-> 0]
    /\ es = <<>>
    /\ now = 0
    /\ rc = IdleRc
    /\ outcome = None
    /\ bf = [run |-> 0]
    /\ InitListener
    /\ InitSched
    /\ InitWindow
    /\ InitHandler
    /\ InitNormalize
    /\ InitJobs

NextSync ==
    \/ \E c \in Channels : PlatformPost(c)
    \/ \E c \in Channels, m \in MsgIds : PlatformDelete(c, m)
    \/ \E c \in Channels, m \in MsgIds, d \in BOOLEAN : ProcessMessageTask(c, m, d)
    \/ \E c \in Channels, s \in BOOLEAN : RcStart(c, s)
    \/ RcReadEs
    \/ RcFetchPage
    \/ RcBulk
    \/ RcCancel
    \/ RcReset

SpecSync == InitSync /\ [][NextSync]_vars

----------------------------------------------------------------------------
(* Properties of reconciliation, checked under SpecSync *)

\* the decision table of the specification, by cases and not by order
TableAction(remote, index) ==
    CASE remote = None                                         -> "skip"
      [] remote # None /\ index = None                         -> "full_sync"
      [] remote # None /\ index # None /\ remote[1] = index[1] -> "skip"
      [] remote # None /\ index # None /\ remote[1] > index[1] -> "incremental_sync"
      [] remote # None /\ index # None /\ remote[1] < index[1] -> "skip"

Decided == rc.pc \in {"fetch", "bulk", "done"} /\ rc.caller = "smart_sync_channel"

Completed == rc.pc = "done" /\ rc.caller = "smart_sync_channel"

\* C1: once smart_sync_channel has read remote_last_id and index_last_id, the
\* branch it is in and the outcome it returns are those of the decision table:
\* skip (nothing fetched, zero processed when the ids are equal or the index is
\* ahead), full_sync with cutoff 0, or incremental_sync with cutoff
\* index_last_id; a sync branch can only turn into error, never into another
\* action.
C1_DecisionTable ==
    Decided =>
        LET expected == TableAction(rc.tg_last_id, rc.es_last_id) IN
        /\ expected = "skip" =>
            /\ rc.pc = "done"
            /\ outcome[1].action = "skip"
            /\ rc.tg_last_id = None => outcome[1].success = FALSE
            /\ rc.tg_last_id # None =>
                   outcome[1].success /\ outcome[1].messages_processed = 0
        /\ expected = "full_sync" =>
            /\ rc.action = "full_sync"
            /\ rc.after_message_id = 0
            /\ rc.pc = "done" => outcome[1].action \in {"full_sync", "error"}
        /\ expected = "incremental_sync" =>
            /\ rc.action = "incremental_sync"
            /\ rc.after_message_id = rc.es_last_id[1]
            /\ rc.pc = "done" => outcome[1].action \in {"incremental_sync", "error"}

C1_Witness ==
    /\ Completed
    /\ outcome[1].action = "incremental_sync"
    /\ rc.tg_last_id[1] > rc.es_last_id[1]
    /\ outcome[1].messages_processed > 0

\* the platform history of the reconciled channel is what it was at the start:
\* nothing was deleted and no id was assigned since
HistoryUnchanged ==
    tg[rc.channel_id] = rc.tg_at_start /\ lastId[rc.channel_id] = rc.last_at_start

AboveCutoff(c, cutoff) == {m \in tg[c] : m > cutoff}

----------------------------------------------------------------------------
(* SpecBackfill: sync_missing_messages called twice with one cutoff *)

\* the state in which sync_missing_messages enters its while loop
BackfillCall(c, cutoff, sync_images) ==
    [pc |-> "fetch", caller |-> "direct", channel_id |-> c,
     sync_images |-> sync_images, after_message_id |-> cutoff,
     offset_id |-> 0, processed_messages |-> <<>>,
     images_downloaded |-> 0, images_failed |-> 0,
     retained |-> {}, failed |-> {}]

\* the first call
BfStart(c, cutoff, sync_images) ==
    /\ bf.run = 0
    /\ rc.pc = "idle"
    /\ rc' = BackfillCall(c, cutoff, sync_images)
    /\ bf' = [run |-> 1, channel_id |-> c, cutoff |-> cutoff,
              sync_images |-> sync_images]
    /\ outcome' = None
    /\ UNCHANGED <<tg, lastId, es, now>>
    /\ SyncOnly

\* the first call has returned: remember what it left and call again with the
\* same arguments
BfRerun ==
    /\ bf.run = 1
    /\ rc.pc = "done"
    /\ "messages_processed" \in DOMAIN outcome[1]
    /\ bf' = [bf EXCEPT !.run = 2] @@ [es_after_first |-> es, first |-> outcome[1]]
    /\ rc' = BackfillCall(bf.channel_id, bf.cutoff, bf.sync_images)
    /\ outcome' = None
    /\ UNCHANGED <<tg, lastId, es, now>>
    /\ SyncOnly

\* the first call raised: it is called again and counts as the first
BfRetry ==
    /\ bf.run = 1
    /\ rc.pc = "done"
    /\ "raised" \in DOMAIN outcome[1]
    /\ rc' = BackfillCall(bf.channel_id, bf.cutoff, bf.sync_images)
    /\ outcome' = None
    /\ UNCHANGED <<tg, lastId, es, now, bf>>
    /\ SyncOnly

NextBackfill ==
    \/ \E c \in Channels : bf.run = 0 /\ PlatformPost(c)
    \/ \E c \in Channels, m \in MsgIds : bf.run = 0 /\ PlatformDelete(c, m)
    \/ \E c \in Channels, m \in MsgIds, d \in BOOLEAN :
           bf.run = 0 /\ ProcessMessageTask(c, m, d)
    \/ \E c \in Channels, cutoff \in 0..MaxMsgId, s \in BOOLEAN : BfStart(c, cutoff, s)
    \/ RcFetchPage
    \/ RcBulk
    \/ BfRerun
    \/ BfRetry

SpecBackfill == InitSync /\ [][NextBackfill]_vars

\* a document without its indexed_at
Content(doc) == [f \in DOMAIN doc \ {"indexed_at"} |-> doc[f]]

BothRunsDone ==
    bf.run = 2 /\ rc.pc = "done" /\ "messages_processed" \in DOMAIN outcome[1]

FirstRunComplete ==
    /\ bf.first.messages_processed = Cardinality(AboveCutoff(bf.channel_id, bf.cutoff))
    /\ bf.first.elasticsearch_failed = 0

\* two documents agree but for indexed_at and for media references that one
\* of them lacks (a media download that returned nothing)
SameButMedia(a, b) ==
    /\ a.channel_id = b.channel_id
    /\ a.message_id = b.message_id
    /\ a.sender_name = b.sender_name
    /\ a.image_urls = b.image_urls \/ a.image_urls = <<>> \/ b.image_urls = <<>>
    /\ a.images = b.images \/ a.images = <<>> \/ b.images = <<>>

----------------------------------------------------------------------------
(* SpecListener: the status store, the listener tasks and the requests *)

NextListener ==
    \/ Tick
    \/ \E d \in BOOLEAN : StartRequest(d)
    \/ \E t \in 1..MaxTasks, discovered \in SUBSET Channels : TaskStart(t, discovered)
    \/ \E t \in 1..MaxTasks : TaskPoll(t)
    \/ \E t \in 1..MaxTasks : TaskFail(t)
    \/ StopRead
    \/ StopWrite
    \/ ResumeRead
    \/ ResumeWrite
    \/ \E op \in {"add", "remove"}, c \in Channels : ChanRead(op, c)
    \/ ChanWrite

SpecListener == InitSync /\ [][NextListener]_vars

\* a running loop keeps being scheduled: it polls again after each sleep; a
\* queued task is picked up by the worker; a request that has read the status
\* goes on to its write
SpecListenerFair ==
    /\ SpecListener
    /\ \A t \in 1..MaxTasks : WF_vars(TaskPoll(t))
    /\ \A t \in 1..MaxTasks : WF_vars(\E discovered \in SUBSET Channels :
                                          TaskStart(t, discovered))
    /\ WF_vars(StopWrite)
    /\ WF_vars(ResumeWrite)
    /\ WF_vars(ChanWrite)

----------------------------------------------------------------------------
(* Properties of the listener, checked under SpecListener *)

Tasks == 1..MaxTasks

\* this step queues task t, and no other task changes
LaunchesOnly(t) ==
    /\ tasks[t].pc = "none"
    /\ tasks'[t].pc = "queued"
    /\ \A u \in Tasks \ {t} : tasks'[u] = tasks[u]

\* a task launched by a start request that has not persisted Running yet
StartPending == \E t \in Tasks : tasks[t].pc = "queued" /\ tasks[t].origin = "start"

\* C4: the start check-then-act is not atomic: a start request that arrives
\* while an earlier start's task is launched but has not yet persisted Running
\* still reads is_running=false and launches a further listener task, so two
\* loops launched by start requests can run at the same time (the witness).
C4_SecondStartLaunches ==
    [][\A d \in BOOLEAN :
          (StartRequest(d) /\ StartPending /\ ~IsRunning(GetListenerStatus)
               /\ FreeTasks # {})
          => /\ \E t \in Tasks : LaunchesOnly(t) /\ tasks'[t].origin = "start"
             /\ resp'.status = "starting"]_vars

C4_Witness ==
    /\ \A t \in Tasks : tasks[t].pc = "running" /\ tasks[t].origin = "start"
    /\ Cardinality(Tasks) >= 2

\* C5: a start request made while the stored status says is_running=true is
\* answered already_running; it launches no task and does not change the
\* stored status.
C5_StartRejectedWhenRunning ==
    [][\A d \in BOOLEAN :
          (StartRequest(d) /\ status # None /\ status.is_running)
          => /\ resp'.status = "already_running"
             /\ tasks' = tasks
             /\ status' = status]_vars

C5_Witness ==
    /\ resp.op = "start"
    /\ resp.status = "already_running"
    /\ status # None /\ status.is_running

\* C7: a stop that reads is_running=false answers not_running and leaves the
\* stored status as it is; a stop that reads is_running=true takes the
\* download_images value of the status it read and then writes a status with
\* is_running=false, a stop timestamp and that download_images value, and
\* answers stopping without any listener task having changed.
C7_StopEffect ==
    [][/\ (StopRead /\ ~IsRunning(GetListenerStatus))
           => resp'.status = "not_running" /\ status' = status /\ req'.stop = None
       /\ (StopRead /\ IsRunning(GetListenerStatus))
           => /\ req'.stop = Some(status.download_images)
              /\ status' = status
       /\ StopWrite
           => /\ status'.is_running = FALSE
              /\ status'.stopped_at = Some(now)
              /\ status'.download_images = req.stop[1]
              /\ resp'.status = "stopping"
              /\ tasks' = tasks]_vars

\* the stop has answered stopping, kept a policy that is not the default, and
\* the loop it stops has not left yet
C7_Witness ==
    /\ resp = [op |-> "stop", status |-> "stopping"]
    /\ status # None /\ ~status.is_running
    /\ status.download_images = FALSE
    /\ "error" \notin DOMAIN status
    /\ \E t \in Tasks : tasks[t].pc = "running"

\* C8: a startup that reads is_running=true launches exactly one listener
\* task, with the download_images value of the stored status, and then writes
\* the status with the task id and the start time of that launch; a startup
\* that reads is_running=false launches nothing and leaves the status as it is.
C8_ResumeOnStartup ==
    [][/\ (ResumeRead /\ IsRunning(GetListenerStatus))
           => /\ \E t \in Tasks :
                    /\ LaunchesOnly(t)
                    /\ tasks'[t].download_images = status.download_images
                    /\ req'.resume[1].task_id = TaskId(t)
                    /\ req'.resume[1].started_at = Some(now)
              /\ status' = status
       /\ (ResumeRead /\ ~IsRunning(GetListenerStatus))
           => tasks' = tasks /\ status' = status /\ req'.resume = None
       /\ ResumeWrite
           => /\ status'.task_id = req.resume[1].task_id
              /\ status'.started_at = req.resume[1].started_at
              /\ tasks' = tasks]_vars

\* the startup has relaunched a listener that does not download images, and
\* the stored handle and start time are no longer those of the earlier launch
C8_Witness ==
    /\ \E t \in Tasks :
          /\ tasks[t].origin = "resume"
          /\ tasks[t].pc = "queued"
          /\ tasks[t].download_images = FALSE
          /\ status # None /\ status.is_running
          /\ status.task_id = TaskId(t)
          /\ status.started_at = Some(now) /\ now > 0
    /\ req.resume = None

\* C9: when a listener task ends with an unhandled failure, the status stored
\* by the failure handler has is_running=false, the error text and a stop
\* timestamp.
C9_FailureStatus ==
    [][\A t \in Tasks :
          TaskFail(t) => /\ status'.is_running = FALSE
                         /\ "error" \in DOMAIN status'
                         /\ status'.error = "exception text"
                         /\ status'.stopped_at = Some(now)]_vars

\* a loop that was running has failed and the stored status is the handler's
C9_Witness ==
    /\ \E t \in Tasks : tasks[t].pc = "failed" /\ tasks[t].origin = "start"
    /\ status # None /\ ~status.is_running
    /\ "error" \in DOMAIN status
    /\ "started_at" \notin DOMAIN status

----------------------------------------------------------------------------
(* The stop of the loop, checked under SpecListenerFair *)

\* the stored status is the one a stop request has just written
StopCleared ==
    /\ resp = [op |-> "stop", status |-> "stopping"]
    /\ status # None /\ ~status.is_running
    /\ "stopped_at" \in DOMAIN status /\ "error" \notin DOMAIN status

\* C6: whenever a stop request has cleared the stored is_running flag while a
\* listener loop is running, that loop eventually leaves (it keeps being
\* scheduled), whatever start requests, startups and channel operations do
\* in between.
C6_StopEndsLoop ==
    \A t \in Tasks : (tasks[t].pc = "running" /\ StopCleared) ~> (tasks[t].pc # "running")

----------------------------------------------------------------------------
(* SpecSched: smart_sync_task fans the channels out under a semaphore,
   tasks/smart_sync_tasks.py *)

Units == 1..MaxUnits

\* the units of the running smart_sync_task in state st
UnitsIn(st) == {u \in DOMAIN sem.unit : sem.unit[u] = st}

\* SmartSyncTask.update_progress: the meta of the PROGRESS state
SmartUpdateProgress(current, total) ==
    [current |-> current, total |-> total,
     percentage |-> IF total > 0 THEN (current * 100) \div total ELSE 0]

\* what one call of smart_sync_channel runs into
ChannelKinds == {"inaccessible", "equal", "full_sync", "incremental_sync",
                 "exception"}

\* the run of sync_missing_messages behind a syncing outcome: n messages
\* retained and stored, images for each of them when with_images
SyncRun(c, action, n, with_images) ==
    [caller |-> "smart_sync_channel", channel_id |-> c, action |-> action,
     tg_last_id |-> Some(n + 1),
     es_last_id |-> IF action = "full_sync" THEN None ELSE Some(1),
     processed_messages |-> [i \in 1..n |-> i],
     images_downloaded |-> IF with_images THEN n ELSE 0,
     images_failed |-> 0]

\* mutant: an exception inside smart_sync_channel leaves it
SmartSyncChannelUncaught(c, kind) ==
    IF kind = "inaccessible" THEN SkipOutcome(c, None, None)
    ELSE IF kind = "equal" THEN SkipOutcome(c, Some(1), Some(1))
    ELSE IF kind = "full_sync"
    THEN SyncOutcome(SyncRun(c, kind, MaxMsgId, TRUE), <<MaxMsgId, 0>>)
    ELSE IF kind = "incremental_sync"
    THEN SyncOutcome(SyncRun(c, kind, 1, FALSE), <<1, 0>>)
    ELSE [raised |-> "exception text"]

\* what smart_sync_channel hands back to the task: the dict of the branch
\* taken, and the dict of its except clause when anything inside it raised
SmartSyncChannel(c, kind) ==
    IF kind = "inaccessible" THEN SkipOutcome(c, None, None)
    ELSE IF kind = "equal" THEN SkipOutcome(c, Some(1), Some(1))
    ELSE IF kind = "full_sync"
    THEN SyncOutcome(SyncRun(c, kind, MaxMsgId, TRUE), <<MaxMsgId, 0>>)
    ELSE IF kind = "incremental_sync"
    THEN SyncOutcome(SyncRun(c, kind, 1, FALSE), <<1, 0>>)
    ELSE ErrorOutcome(c)

\* mutant: the semaphore lets every caller in
SemaphoreAlwaysFree(s) == TRUE

\* asyncio.Semaphore.acquire goes on without waiting while the value is positive
SemaphoreFree(s) == s.value > 0

\* the early return of smart_sync_task when there is no channel to process
NoChannelsResult ==
    [success |-> FALSE, message |-> "No channels found to sync",
     results |-> <<>>]

\* smart_sync_task up to the creation of the per-channel coroutines: the
\* early return without channels, else the first progress report,
\* semaphore = asyncio.Semaphore(max_parallel) and one coroutine per channel
SchedStart(max_parallel, total_channels) ==
    /\ sem.pc = "idle"
    /\ sem' = [pc |-> IF total_channels = 0 THEN "done" ELSE "running",
               max_parallel |-> max_parallel,
               value |-> max_parallel, waiters |-> <<>>,
               unit |-> [u \in 1..total_channels |-> "created"],
               kind |-> [u \in 1..total_channels |-> "none"],
               returned |-> [u \in 1..total_channels |-> None],
               completed |-> 0, total |-> total_channels,
               results |-> <<>>,
               reports |-> IF total_channels = 0 THEN <<>>
                           ELSE <<SmartUpdateProgress(0, total_channels)>>,
               result |-> IF total_channels = 0 THEN Some(NoChannelsResult)
                          ELSE None]
    /\ SchedOnly

\* process_channel_with_semaphore reaches "async with semaphore": it enters
\* and calls smart_sync_channel, or waits in the queue of the semaphore
UnitAcquire(u) ==
    /\ sem.pc = "running"
    /\ u \in UnitsIn("created")
    /\ sem' = IF SemaphoreFree(sem)
              THEN [sem EXCEPT !.value = @ - 1, !.unit[u] = "running"]
              ELSE [sem EXCEPT !.waiters = Append(@, u), !.unit[u] = "waiting"]
    /\ SchedOnly

\* the first waiter is woken once the semaphore has been released
UnitWake(u) ==
    /\ sem.pc = "running"
    /\ sem.waiters # <<>>
    /\ u = Head(sem.waiters)
    /\ SemaphoreFree(sem)
    /\ sem' = [sem EXCEPT !.value = @ - 1, !.unit[u] = "running",
                          !.waiters = Tail(@)]
    /\ SchedOnly

\* smart_sync_channel is over for the unit, in one of the ways it can go,
\* and the "async with" releases the semaphore
UnitRelease(u, kind) ==
    /\ sem.pc = "running"
    /\ u \in UnitsIn("running")
    /\ sem' = [sem EXCEPT !.value = @ + 1, !.unit[u] = "finished",
                          !.kind[u] = kind,
                          !.returned[u] = Some(SmartSyncChannel(u, kind))]
    /\ SchedOnly

\* mutant: the progress is updated before completed is incremented
UnitCollectStaleProgress(u) ==
    /\ sem.pc = "running"
    /\ u \in UnitsIn("finished")
    /\ sem' = [sem EXCEPT !.completed = @ + 1, !.unit[u] = "collected",
                          !.results = Append(@, sem.returned[u][1]),
                          !.reports = Append(@,
                              SmartUpdateProgress(sem.completed, sem.total))]
    /\ SchedOnly

\* asyncio.as_completed yields a finished unit and the task awaits it: an
\* exception of the unit leaves the task, a result is appended,
\* completed += 1 and the progress is updated
UnitCollect(u) ==
    /\ sem.pc = "running"
    /\ u \in UnitsIn("finished")
    /\ sem' = IF "raised" \in DOMAIN sem.returned[u][1]
              THEN [sem EXCEPT !.pc = "failed", !.unit[u] = "collected"]
              ELSE [sem EXCEPT !.completed = @ + 1, !.unit[u] = "collected",
                               !.results = Append(@, sem.returned[u][1]),
                               !.reports = Append(@,
                                   SmartUpdateProgress(sem.completed + 1,
                                                       sem.total))]
    /\ SchedOnly

\* sum(r.get(key, 0) for r in results)
RECURSIVE SumOf(_, _)
SumOf(results, key) ==
    IF results = <<>> THEN 0
    ELSE Get(Head(results), key, 0) + SumOf(Tail(results), key)

\* the histogram of the actions of the results
ActionsSummary(results) ==
    [a \in {results[i].action : i \in DOMAIN results} |->
        Cardinality({i \in DOMAIN results : results[i].action = a})]

\* mutant: only the outcomes of the except clause count as failed
AggregateErrorsOnly(results, total_channels) ==
    [success |-> TRUE,
     channels_processed |-> total_channels,
     channels_successful |->
         Cardinality({i \in DOMAIN results : results[i].success}),
     channels_failed |->
         Cardinality({i \in DOMAIN results : results[i].action = "error"}),
     total_messages_processed |-> SumOf(results, "messages_processed"),
     total_images_downloaded |-> SumOf(results, "images_downloaded"),
     actions_summary |-> ActionsSummary(results),
     results |-> results]

\* the statistics smart_sync_task returns
Aggregate(results, total_channels) ==
    [success |-> TRUE,
     channels_processed |-> total_channels,
     channels_successful |->
         Cardinality({i \in DOMAIN results : results[i].success}),
     channels_failed |->
         total_channels - Cardinality({i \in DOMAIN results : results[i].success}),
     total_messages_processed |-> SumOf(results, "messages_processed"),
     total_images_downloaded |-> SumOf(results, "images_downloaded"),
     actions_summary |-> ActionsSummary(results),
     results |-> results]

\* every unit is collected: the task aggregates and returns
SchedReturn ==
    /\ sem.pc = "running"
    /\ sem.completed = sem.total
    /\ sem' = [sem EXCEPT !.pc = "done",
                          !.result = Some(Aggregate(sem.results, sem.total))]
    /\ SchedOnly

NextSched ==
    \/ \E p \in MinParallel..MaxParallel, n \in 0..MaxUnits : SchedStart(p, n)
    \/ \E u \in Units : UnitAcquire(u)
    \/ \E u \in Units : UnitWake(u)
    \/ \E u \in Units, kind \in ChannelKinds : UnitRelease(u, kind)
    \/ \E u \in Units : UnitCollect(u)
    \/ SchedReturn

SpecSched == InitSync /\ [][NextSched]_vars

\* C10: the number of per-channel units inside smart_sync_channel at one time
\* never exceeds max_parallel, whatever max_parallel >= 1 and however many
\* channels there are.
C10_AtMostMaxParallel ==
    sem.pc # "idle" =>
        /\ sem.max_parallel >= 1
        /\ Cardinality(UnitsIn("running")) <= sem.max_parallel

\* more channels than max_parallel: the semaphore is full and a unit waits
C10_Witness ==
    /\ sem.pc = "running"
    /\ sem.total > sem.max_parallel
    /\ Cardinality(UnitsIn("running")) = sem.max_parallel
    /\ UnitsIn("waiting") # {}
    /\ UnitsIn("collected") # {}

----------------------------------------------------------------------------
(* sync_window: routers/sync_router.py and tasks/sync_tasks.py *)

\* datetime.now() read again: later, up to the end of the modelled clock
Later == IF now < MaxClock THEN now + 1 ELSE now

\* mutant: a task without work is reported as complete
UpdateProgressFullWhenEmpty(current, total) ==
    [current |-> current, total |-> total,
     percentage |-> IF total > 0 THEN (current * 100) \div total ELSE 100]

\* SyncTask.update_progress: the meta of the PROGRESS state
UpdateProgress(current, total) ==
    [current |-> current, total |-> total,
     percentage |-> IF total > 0 THEN (current * 100) \div total ELSE 0]

\* the arguments of sync_channel_messages_task
WindowArgs(c, sync_chat, sync_images, size, offset, batch_size) ==
    [channel_id |-> c, sync_chat |-> sync_chat, sync_images |-> sync_images,
     size |-> size, offset |-> offset, batch_size |-> batch_size]

\* mutant: the router only checks the channel id
WindowRejectedChannelOnly(a) == a.channel_id <= 0

\* the validation of sync_channel_async: ValueError, answered 400
WindowRejected(a) == a.channel_id <= 0 \/ (~a.sync_chat /\ ~a.sync_images)

\* POST /sync/channel/{channel_id}
SwRequest(c, sync_chat, sync_images, size, offset, batch_size) ==
    /\ sw.pc = "idle"
    /\ LET a == WindowArgs(c, sync_chat, sync_images, size, offset, batch_size) IN
       sw' = IF WindowRejected(a)
             THEN [pc |-> "rejected", via |-> "router", args |-> a,
                   status_code |-> 400, run |-> 1]
             ELSE [pc |-> "queued", via |-> "router", args |-> a, run |-> 1]
    /\ UNCHANGED <<es, now>>
    /\ WindowOnly

\* the task is sent without the router: sync_multiple_channels_task, or a
\* caller of the celery task by name; offset and batch_size take the defaults
SwDirect(c, sync_chat, sync_images, size) ==
    /\ sw.pc = "idle"
    /\ sw' = [pc |-> "queued", via |-> "task", run |-> 1,
              args |-> WindowArgs(c, sync_chat, sync_images, size, 0, MaxBatch)]
    /\ UNCHANGED <<es, now>>
    /\ WindowOnly

\* the validation of run_sync
TaskRejected(a) == ~a.sync_chat /\ ~a.sync_images

\* where run_sync goes after the initial progress update
AfterStart(a) ==
    IF a.offset > 0 THEN "skip" ELSE IF a.size > 0 THEN "fetch" ELSE "bulk"

\* run_sync up to the first progress update; telethon_client.start() may fail
SwStart ==
    /\ sw.pc = "queued"
    /\ \/ sw' = [sw EXCEPT !.pc = "failed"] @@ [error |-> "connection"]
       \/ sw' = IF TaskRejected(sw.args)
                THEN [sw EXCEPT !.pc = "failed"] @@ [error |-> "ValueError"]
                ELSE [sw EXCEPT !.pc = AfterStart(sw.args)] @@
                     [current_offset |-> 0, processed_messages |-> <<>>,
                      images_downloaded |-> 0, images_failed |-> 0,
                      fetched |-> {}, failed |-> {},
                      reports |-> <<UpdateProgress(0, sw.args.size)>>]
    /\ UNCHANGED <<es, now>>
    /\ WindowOnly

\* the offset is skipped by walking the cursor over the newest messages
\* mutant: the skip leaves the cursor at the newest message
SwSkipFromNewest ==
    /\ sw.pc = "skip"
    /\ sw' = [sw EXCEPT
                !.pc = IF sw.args.size > 0 THEN "fetch" ELSE "bulk",
                !.reports = Append(@, UpdateProgress(0, sw.args.size))]
    /\ UNCHANGED <<es, now>>
    /\ WindowOnly

SwSkip ==
    /\ sw.pc = "skip"
    /\ LET skip_messages == GetMessages(sw.args.channel_id, sw.args.offset, 0) IN
       sw' = [sw EXCEPT
                !.pc = IF sw.args.size > 0 THEN "fetch" ELSE "bulk",
                !.current_offset = IF skip_messages # <<>>
                                   THEN skip_messages[Len(skip_messages)] ELSE @,
                !.reports = Append(@, UpdateProgress(0, sw.args.size))]
    /\ UNCHANGED <<es, now>>
    /\ WindowOnly

\* the progress updates of one page: one after each message, with the number
\* of records kept so far
RECURSIVE PageProgress(_, _, _, _, _, _)
PageProgress(a, ids, env, t, n, total) ==
    IF ids = <<>> THEN <<>>
    ELSE LET n1 == n + Len(ProcessMessage(a.channel_id, Head(ids), a.sync_images,
                                          env[Head(ids)], t))
         IN <<UpdateProgress(n1, total)>> \o PageProgress(a, Tail(ids), env, t, n1, total)

\* mutant: every page asks for a whole batch
MessagesToFetchWholeBatch(a, n) == a.batch_size

\* messages_to_fetch = min(batch_size, size - len(processed_messages))
MessagesToFetch(a, n) == Min({a.batch_size, a.size - n})

\* mutant: the cursor is left where it was
WindowCursorKept(page, current_offset) == current_offset

\* current_offset = telegram_messages[-1].id after a page that is not empty
WindowCursor(page, current_offset) ==
    IF page # <<>> THEN page[Len(page)] ELSE current_offset

\* one iteration of the while loop of run_sync
SwFetchPage ==
    /\ sw.pc = "fetch"
    /\ LET a == sw.args
           messages_to_fetch == MessagesToFetch(a, Len(sw.processed_messages))
           page == GetMessages(a.channel_id, messages_to_fetch, sw.current_offset)
       IN
       \E env \in [Range(page) -> EnvOutcomes] :
          LET records == ProcessPage(a.channel_id, page, a.sync_images, env, now)
              processed == sw.processed_messages \o records
          IN
          /\ sw' = [sw EXCEPT
                      !.pc = IF page # <<>> /\ Len(page) = messages_to_fetch
                                /\ Len(processed) < a.size
                             THEN "fetch" ELSE "bulk",
                      !.current_offset = WindowCursor(page, sw.current_offset),
                      !.processed_messages = processed,
                      !.fetched = @ \cup Range(page),
                      !.failed = @ \cup NoRecord(a.channel_id, Range(page),
                                                 a.sync_images, env, now),
                      !.images_downloaded = @ + ImagesDownloaded(records, a.sync_images),
                      !.reports = @ \o PageProgress(a, page, env, now,
                                                    Len(sw.processed_messages), a.size)]
          /\ now' = IF records # <<>> THEN Later ELSE now
    /\ es' = es
    /\ WindowOnly

\* the dict run_sync returns
\* mutant: has_more tells whether a message older than the cursor exists
WindowResultMoreIfOlder(w, counts) ==
    [channel_id |-> w.args.channel_id,
     sync_chat |-> w.args.sync_chat,
     sync_images |-> w.args.sync_images,
     messages_processed |-> Len(w.processed_messages),
     chat_messages_stored |-> IF w.args.sync_chat THEN counts[1] ELSE 0,
     images_downloaded |-> IF w.args.sync_images THEN w.images_downloaded ELSE 0,
     images_failed |-> IF w.args.sync_images THEN w.images_failed ELSE 0,
     elasticsearch_success |-> counts[1],
     elasticsearch_failed |-> counts[2],
     has_more |-> \E m \in tg[w.args.channel_id] :
                     w.current_offset = 0 \/ m < w.current_offset]

WindowResult(w, counts) ==
    [channel_id |-> w.args.channel_id,
     sync_chat |-> w.args.sync_chat,
     sync_images |-> w.args.sync_images,
     messages_processed |-> Len(w.processed_messages),
     chat_messages_stored |-> IF w.args.sync_chat THEN counts[1] ELSE 0,
     images_downloaded |-> IF w.args.sync_images THEN w.images_downloaded ELSE 0,
     images_failed |-> IF w.args.sync_images THEN w.images_failed ELSE 0,
     elasticsearch_success |-> counts[1],
     elasticsearch_failed |-> counts[2],
     has_more |-> Len(w.processed_messages) = w.args.size]

\* the task ends: state done, with the result and the last progress report
WindowDone(w, counts) ==
    [w EXCEPT !.pc = "done",
              !.reports = Append(@, UpdateProgress(Len(w.processed_messages),
                                                   w.args.size))]
    @@ [result |-> WindowResult(w, counts)]

\* mutant: the bulk request creates documents and leaves existing ones alone
SwBulkCreateOnly ==
    /\ sw.pc = "bulk"
    /\ IF sw.args.sync_chat /\ sw.processed_messages # <<>>
       THEN \E w \in BulkWrites(Range(sw.processed_messages)) :
            /\ es' = Upsert(es, {r \in w.written :
                                    DocId(r.channel_id, r.message_id) \notin DOMAIN es})
            /\ sw' = WindowDone(sw, BulkCounts(Len(sw.processed_messages), w.raised))
       ELSE /\ es' = es
            /\ sw' = WindowDone(sw, <<0, 0>>)
    /\ now' = now
    /\ WindowOnly

\* the bulk insert that ends run_sync, the final progress update and the return
SwBulk ==
    /\ sw.pc = "bulk"
    /\ IF sw.args.sync_chat /\ sw.processed_messages # <<>>
       THEN \E w \in BulkWrites(Range(sw.processed_messages)) :
            /\ es' = Upsert(es, w.written)
            /\ sw' = WindowDone(sw, BulkCounts(Len(sw.processed_messages), w.raised))
       ELSE /\ es' = es
            /\ sw' = WindowDone(sw, <<0, 0>>)
    /\ now' = now
    /\ WindowOnly

\* DELETE /sync/task/{task_id}: revoke(terminate=True) ends the task where it
\* stands; a bulk request under way may have been applied in part.  es_before
\* remembers the index as the first run found it (the task writes nothing
\* before its bulk request) and partial the messages whose documents the
\* cancelled request has stored
SwCancel ==
    /\ sw.pc \in {"queued", "skip", "fetch", "bulk"}
    /\ \E written \in IF sw.pc = "bulk" /\ sw.args.sync_chat
                      THEN SUBSET Range(sw.processed_messages) ELSE {{}} :
          /\ es' = Upsert(es, written)
          /\ sw' = [pc |-> "cancelled", via |-> sw.via, args |-> sw.args,
                    run |-> sw.run,
                    es_before |-> IF sw.run = 1 THEN es ELSE sw.es_before,
                    partial |-> IF sw.run = 1
                                THEN {r.message_id : r \in written}
                                ELSE sw.partial]
    /\ now' = now
    /\ WindowOnly

\* the cancelled request is sent again
SwRerun ==
    /\ sw.pc = "cancelled"
    /\ sw.run = 1
    /\ sw' = [sw EXCEPT !.pc = "queued", !.run = 2]
    /\ UNCHANGED <<es, now>>
    /\ WindowOnly

\* the response or the result has been read; the next request may come
SwReset ==
    /\ sw.pc \in {"rejected", "failed", "done"} \/ (sw.pc = "cancelled" /\ sw.run = 2)
    /\ sw' = [pc |-> "idle"]
    /\ UNCHANGED <<es, now>>
    /\ WindowOnly

\* the platform and the live jobs act between two sync_window requests
NextWindow ==
    \/ \E c \in Channels : sw.pc = "idle" /\ PlatformPost(c)
    \/ \E c \in Channels, m \in MsgIds : sw.pc = "idle" /\ PlatformDelete(c, m)
    \/ \E c \in Channels, m \in MsgIds, d \in BOOLEAN :
           sw.pc = "idle" /\ ProcessMessageTask(c, m, d)
    \/ \E c \in RequestChannels, sync_chat \in BOOLEAN, sync_images \in BOOLEAN,
          size \in 1..MaxSize, offset \in 0..MaxOffset, batch_size \in 1..MaxBatch :
           SwRequest(c, sync_chat, sync_images, size, offset, batch_size)
    \/ \E c \in Channels, sync_chat \in BOOLEAN, sync_images \in BOOLEAN,
          size \in 0..MaxSize : SwDirect(c, sync_chat, sync_images, size)
    \/ SwStart
    \/ SwSkip
    \/ SwFetchPage
    \/ SwBulk
    \/ SwCancel
    \/ SwRerun

SpecWindow == InitSync /\ [][NextWindow]_vars

----------------------------------------------------------------------------
(* SpecProgress: the two tasks that report progress, sync_window and
   reconcile_all.  Each task reports from its own state only, so they are
   run one at a time: reconcile_all on the initial platform, sync_window on
   every history. *)

NextProgress ==
    \/ sem.pc = "idle" /\ NextWindow
    \/ /\ sw.pc = "idle"
       /\ \A c \in Channels : lastId[c] = 0
       /\ NextSched

SpecProgress == InitSync /\ [][NextProgress]_vars

\* a sequence of progress reports: current never decreases, each percentage
\* lies in 0..100 and is 0 when the total is 0
ReportsInOrder(reports) ==
    \A i \in DOMAIN reports :
        /\ reports[i].percentage \in 0..100
        /\ reports[i].total = 0 => reports[i].percentage = 0
        /\ i > 1 => reports[i - 1].current <= reports[i].current

----------------------------------------------------------------------------
(* The window of sync_window *)

\* the messages of the channel that a skip of offset messages leaves: all
\* but the newest offset ones
AfterOffset(c, offset) ==
    {m \in tg[c] : Cardinality({k \in tg[c] : k > m}) >= offset}

\* the ids of the records the task has kept
ProcessedIds(w) == {w.processed_messages[i].message_id : i \in DOMAIN w.processed_messages}

----------------------------------------------------------------------------
(* The results of reconcile_all *)

\* the positions in results that hold the outcome of channel c
ResultsOf(c) == {i \in DOMAIN sem.results : sem.results[i].channel_id = c}

\* C13: in reconcile_all an exception raised while one channel is reconciled
\* becomes that channel's outcome, with action error and the error text as
\* reason; the task does not fail, the other channels are reconciled and the
\* task returns the aggregate result.
C13_ErrorCaptured ==
    sem.pc # "idle" =>
        /\ sem.pc # "failed"
        /\ \A u \in DOMAIN sem.unit :
               (sem.unit[u] = "collected" /\ sem.kind[u] = "exception") =>
                   \E i \in ResultsOf(u) :
                       /\ sem.results[i].action = "error"
                       /\ sem.results[i].reason = "exception text"
                       /\ ~sem.results[i].success
        /\ (sem.pc = "done" /\ sem.total > 0) =>
               /\ sem.result[1].success
               /\ sem.result[1].results = sem.results
               /\ \A u \in DOMAIN sem.unit : ResultsOf(u) # {}

\* the first channel collected raised, a later one was synced, and the task
\* has returned
C13_Witness ==
    /\ sem.pc = "done"
    /\ sem.total = MaxUnits
    /\ sem.results[1].action = "error"
    /\ \E i \in DOMAIN sem.results :
           i > 1 /\ sem.results[i].action = "full_sync"

\* the actions an outcome can carry
ActionNames == <<"skip", "full_sync", "incremental_sync", "error">>

\* C14: the result of reconcile_all holds exactly one outcome per requested
\* channel; channels_successful + channels_failed = channels_processed = the
\* number of channels; total_messages_processed and total_images_downloaded
\* are the sums of the per-channel counts; the counts of the action histogram
\* sum to the number of channels.
C14_AggregateConsistent ==
    (sem.pc = "done" /\ sem.total > 0) =>
        LET r == sem.result[1]
            h == r.actions_summary
            count(key) == SumSeq([u \in 1..sem.total |->
                                     Get(sem.returned[u][1], key, 0)])
        IN
        /\ Len(r.results) = sem.total
        /\ \A u \in 1..sem.total :
               Cardinality({i \in DOMAIN r.results : r.results[i] = sem.returned[u][1]}) = 1
        /\ r.channels_processed = sem.total
        /\ r.channels_successful + r.channels_failed = r.channels_processed
        /\ r.total_messages_processed = count("messages_processed")
        /\ r.total_images_downloaded = count("images_downloaded")
        /\ DOMAIN h \subseteq Range(ActionNames)
        /\ SumSeq([i \in DOMAIN ActionNames |->
                      IF ActionNames[i] \in DOMAIN h THEN h[ActionNames[i]] ELSE 0])
           = sem.total

\* the task has returned for three channels: one inaccessible, one that
\* raised and one synced in full
C14_Witness ==
    /\ sem.pc = "done"
    /\ sem.total = MaxUnits
    /\ {sem.kind[u] : u \in DOMAIN sem.kind} = {"inaccessible", "exception", "full_sync"}
    /\ sem.result[1].channels_failed = 2
    /\ sem.result[1].total_messages_processed = MaxMsgId

----------------------------------------------------------------------------
(* SpecIndex: the three paths that write the index, interleaved: the live
   job of the listener, reconcile with its backfill, and sync_window *)

\* the two batch tasks run one after the other; the live jobs and the
\* platform act at any time
NextIndex ==
    \/ \E c \in Channels : PlatformPost(c)
    \/ \E c \in Channels, m \in MsgIds : PlatformDelete(c, m)
    \/ \E c \in Channels, m \in MsgIds, d \in BOOLEAN : ProcessMessageTask(c, m, d)
    \/ \E c \in Channels, s \in BOOLEAN : sw.pc = "idle" /\ RcStart(c, s)
    \/ RcReadEs
    \/ RcFetchPage
    \/ RcBulk
    \/ RcCancel
    \/ RcReset
    \/ \E c \in Channels, sync_images \in BOOLEAN :
           rc.pc = "idle" /\ SwDirect(c, TRUE, sync_images, MaxSize)
    \/ SwStart
    \/ SwFetchPage
    \/ SwBulk
    \/ SwReset

SpecIndex == InitSync /\ [][NextIndex]_vars

\* C15: after any interleaving of live jobs, backfills and sync_window runs
\* the index holds at most one document per (channel_id, message_id), and
\* every document is stored under "<channel_id>_<message_id>".
C15_OneDocumentPerIdentity ==
    /\ \A d1, d2 \in DOMAIN es :
           (es[d1].channel_id = es[d2].channel_id
            /\ es[d1].message_id = es[d2].message_id) => d1 = d2
    /\ \A d \in DOMAIN es : d = DocId(es[d].channel_id, es[d].message_id)

\* a message that a sync_window task has stored and that a live job has
\* indexed again after it: its one document is the one of the live path
C15_Witness ==
    /\ sw.pc = "done"
    /\ sw.result.elasticsearch_success = MaxSize
    /\ \E m \in ProcessedIds(sw) :
           /\ SenderOf(m) = "absent_unresolvable"
           /\ DocId(sw.args.channel_id, m) \in DOMAIN es
           /\ es[DocId(sw.args.channel_id, m)].sender_name = LiveSenderName(m)

----------------------------------------------------------------------------
(* The frame of reconcile, checked under SpecSync *)

\* C16: a reconcile whose action is skip performs no index write, and no
\* step of any reconcile (nor of a live job) removes a document or changes
\* the identity stored under an id: the set of indexed identities of a
\* channel never shrinks.
C16_SkipWritesNothing ==
    [][/\ \A d \in DOMAIN es :
              /\ d \in DOMAIN es'
              /\ es'[d].channel_id = es[d].channel_id
              /\ es'[d].message_id = es[d].message_id
       /\ (rc' # rc /\ rc.pc \in {"idle", "read_es"}) => es' = es
       /\ (rc' # rc /\ rc'.pc = "done" /\ outcome' # None
           /\ outcome'[1].action = "skip") => es' = es]_vars

\* a reconcile has skipped on the anomaly: the index is ahead of the platform
\* and keeps its documents
C16_Witness ==
    /\ rc.pc = "done"
    /\ outcome # None
    /\ outcome[1].action = "skip"
    /\ rc.tg_last_id # None
    /\ rc.es_last_id # None
    /\ rc.es_last_id[1] > rc.tg_last_id[1]
    /\ Cardinality(DOMAIN es) >= 2

----------------------------------------------------------------------------
(* The sender name on the two normalization paths *)

\* C17: a message whose sender entity is absent but whose sender_id is present
\* and cannot be resolved is given sender_name "User_<sender_id>" by
\* whichever path normalizes it: every document of such a message, written
\* by a live job or by a backfill, carries that name.
C17_SenderFallbackOnEveryPath ==
    \A d \in DOMAIN es :
        SenderOf(es[d].message_id) = "absent_unresolvable" =>
            es[d].sender_name = "User_" \o ToString(es[d].message_id)

----------------------------------------------------------------------------
(* Cancelling sync_window and sending the request again *)

\* the index a run that is not cancelled leaves, given the index it starts
\* from and the records it keeps, when its bulk request is stored in full
IndexAfterRun(index, w) ==
    IF w.args.sync_chat THEN Upsert(index, Range(w.processed_messages)) ELSE index

\* the request was cancelled once, sent again and this time ran to the end
\* with its bulk request stored in full
RerunDone ==
    /\ sw.pc = "done"
    /\ sw.run = 2
    /\ sw.result.elasticsearch_failed = 0

----------------------------------------------------------------------------
(* Validation of a sync_window request *)

\* what the claim calls an invalid request
NothingToSync(a) == ~a.sync_chat /\ ~a.sync_images

\* C19: a sync_window request with sync_chat and sync_images both false, or
\* with channel_id <= 0, is answered at once with the validation error 400;
\* a task with such arguments never fetches a message, and no step taken for
\* such a request changes the index.
C19_InvalidRequestRejected ==
    [][/\ (sw.pc = "idle" /\ sw'.pc # "idle" /\ sw'.via = "router"
           /\ (sw'.args.channel_id <= 0 \/ NothingToSync(sw'.args)))
          => /\ sw'.pc = "rejected"
             /\ sw'.status_code = 400
       /\ (sw'.pc # "idle"
           /\ (sw'.args.channel_id <= 0 \/ NothingToSync(sw'.args)))
          => /\ sw'.pc \in {"rejected", "queued", "failed", "cancelled"}
             /\ "fetched" \notin DOMAIN sw'
             /\ es' = es]_vars

\* a request for a valid channel with nothing to sync has been answered 400
\* while the channel has messages and the index documents
C19_Witness ==
    /\ sw.pc = "rejected"
    /\ sw.status_code = 400
    /\ sw.args.channel_id \in Channels
    /\ NothingToSync(sw.args)
    /\ tg[sw.args.channel_id] # {}
    /\ es # <<>>

----------------------------------------------------------------------------
(* SpecPreview: GET /sync/smart/preview, routers/smart_sync_router.py *)

\* get_telegram_channel_stats: None when the call raises; for a channel that
\* answers, a dict whose last_message_id is None when there is no message
TelegramChannelStats(c) ==
    {None} \cup
    {Some([last_message_id |-> IF tg[c] = {} THEN None ELSE Some(Max(tg[c])),
           channel_accessible |-> TRUE])}

\* get_elasticsearch_channel_stats: last_message_id is None without a hit and
\* when the search raises
ElasticsearchChannelStats(c) ==
    {[last_message_id |-> e] : e \in ElasticsearchLastIds(c)}

\* the branch preview_smart_sync takes, tested in the order of the code;
\* None > int raises TypeError
PreviewAction(tg_stats, es_stats) ==
    IF tg_stats = None THEN "skip"
    ELSE IF es_stats.last_message_id = None THEN "full_sync"
    ELSE IF tg_stats[1].last_message_id = es_stats.last_message_id THEN "skip"
    ELSE IF tg_stats[1].last_message_id = None THEN "TypeError"
    ELSE IF tg_stats[1].last_message_id[1] > es_stats.last_message_id[1]
    THEN "incremental_sync"
    ELSE "skip"

\* the answer of the endpoint for one channel: the exception is caught by
\* the handler and answered 500
PreviewResponse(c, tg_stats, es_stats) ==
    IF PreviewAction(tg_stats, es_stats) = "TypeError"
    THEN [status_code |-> 500, channel_id |-> c,
          telegram_stats |-> tg_stats, elasticsearch_stats |-> es_stats]
    ELSE [status_code |-> 200, channel_id |-> c,
          action |-> PreviewAction(tg_stats, es_stats),
          telegram_stats |-> tg_stats, elasticsearch_stats |-> es_stats]

\* GET /sync/smart/preview?channel_id=c
Preview(c) ==
    /\ \E tg_stats \in TelegramChannelStats(c),
          es_stats \in ElasticsearchChannelStats(c) :
           pv' = Some(PreviewResponse(c, tg_stats, es_stats))
    /\ PreviewOnly

NextPreview ==
    \/ \E c \in Channels : PlatformPost(c)
    \/ \E c \in Channels, m \in MsgIds : PlatformDelete(c, m)
    \/ \E c \in Channels, m \in MsgIds, d \in BOOLEAN : ProcessMessageTask(c, m, d)
    \/ \E c \in Channels : Preview(c)

SpecPreview == InitSync /\ [][NextPreview]_vars

\* what get_last_message_id_telegram reads in the state the preview saw:
\* None for a channel that raises and for one without messages
ReconcileReading(tg_stats) ==
    IF tg_stats = None THEN None ELSE tg_stats[1].last_message_id

\* C20: for every channel and every state of the platform and the index,
\* including an accessible channel without messages, the preview answers
\* with the action smart_sync_channel takes on the same readings.
C20_PreviewMatchesReconcile ==
    pv # None =>
        /\ pv[1].status_code = 200
        /\ pv[1].action = SmartSyncAction(ReconcileReading(pv[1].telegram_stats),
                                          pv[1].elasticsearch_stats.last_message_id)

----------------------------------------------------------------------------
(* The window of a backfill, checked under SpecBackfill *)

\* sync_missing_messages has left its loop, or has returned its counts
LoopLeft ==
    /\ bf.run >= 1
    /\ \/ rc.pc = "bulk"
       \/ rc.pc = "done" /\ "messages_processed" \in DOMAIN outcome[1]

\* C21: a backfill with cutoff c hands to normalization exactly the platform
\* messages whose id is greater than c, over as many pages as it takes: no
\* message with id <= c is ever normalized, and a second run leaves the
\* documents of such messages as they were.
C21_RetainsAboveCutoff ==
    /\ (bf.run >= 1 /\ rc.pc \in {"fetch", "bulk", "done"}) =>
           /\ \A m \in rc.retained : m > bf.cutoff
           /\ ProcessedIds(rc) \subseteq rc.retained
    /\ LoopLeft => rc.retained = AboveCutoff(bf.channel_id, bf.cutoff)
    /\ BothRunsDone =>
           \A d \in DOMAIN bf.es_after_first :
               bf.es_after_first[d].message_id <= bf.cutoff =>
                   es[d] = bf.es_after_first[d]

\* a backfill has returned after two pages: the second page held the message
\* at the cutoff, which stays indexed as it was
C21_Witness ==
    /\ LoopLeft
    /\ rc.pc = "done"
    /\ bf.cutoff \in tg[bf.channel_id]
    /\ Cardinality(rc.retained) = PageLimit
    /\ DocId(bf.channel_id, bf.cutoff) \in DOMAIN es
    /\ outcome[1].elasticsearch_success = PageLimit

----------------------------------------------------------------------------
(* Termination of the two page loops, checked under SpecIndex *)

\* the cursor has moved down: offset_id 0 stands for "from the newest"
CursorBelow(new, old) == new > 0 /\ (old = 0 \/ new < old)

\* C22: the page loops of backfill and of sync_window cannot go on for ever:
\* whenever a loop goes on to a further page its cursor has strictly
\* decreased, and it does not go on after a page that is empty or, for
\* backfill, holds an id <= cutoff, or, for sync_window, is smaller than
\* requested or completes the size records.
C22_LoopsTerminate ==
    [][/\ (rc.pc = "fetch" /\ rc' # rc) =>
              LET page == GetMessages(rc.channel_id, PageLimit, rc.offset_id) IN
              /\ rc'.pc = "fetch" => CursorBelow(rc'.offset_id, rc.offset_id)
              /\ (page = <<>> \/ \E i \in DOMAIN page : page[i] <= rc.after_message_id)
                     => rc'.pc # "fetch"
       /\ (sw.pc = "fetch" /\ sw' # sw) =>
              LET requested == Min({sw.args.batch_size,
                                    sw.args.size - Len(sw.processed_messages)})
                  page == GetMessages(sw.args.channel_id, requested, sw.current_offset)
              IN
              /\ sw'.pc = "fetch" => CursorBelow(sw'.current_offset, sw.current_offset)
              /\ (page = <<>> \/ Len(page) < requested
                  \/ Len(sw'.processed_messages) >= sw.args.size)
                     => sw'.pc # "fetch"]_vars

\* a sync_window task has ended after a second page: a message of the first
\* page gave no record and the loop went on below it
C22_Witness ==
    /\ sw.pc = "done"
    /\ sw.failed # {}
    /\ Cardinality(sw.fetched) > sw.args.batch_size
    /\ sw.result.messages_processed = sw.args.size

----------------------------------------------------------------------------
(* Messages that give no record *)

\* a backfill has returned its counts
BackfillReturned ==
    /\ bf.run >= 1
    /\ rc.pc = "done"
    /\ "images_failed" \in DOMAIN outcome[1]

\* C25: in a backfill every message whose normalization or media processing
\* failed is skipped and counted: the images_failed of the outcome is the
\* number of messages that gave no record.
C25_FailureCounted ==
    BackfillReturned =>
        /\ ProcessedIds(rc) \cap rc.failed = {}
        /\ outcome[1].images_failed = Cardinality(rc.failed)

\* C26: a message whose normalization raised gives no record and the run goes
\* on: the records of a backfill and of a sync_window are those of every
\* other message handed to the normalizer, on the same page and on later
\* pages, and a bulk request that reported no failure has stored them all.
C26_FailureDoesNotAbort ==
    /\ (rc.pc \in {"fetch", "bulk", "done"} /\ "retained" \in DOMAIN rc) =>
           /\ ProcessedIds(rc) = rc.retained \ rc.failed
           /\ (rc.pc = "done" /\ "elasticsearch_failed" \in DOMAIN outcome[1]
                              /\ outcome[1].elasticsearch_failed = 0) =>
                  \A m \in ProcessedIds(rc) : DocId(rc.channel_id, m) \in DOMAIN es
    /\ sw.pc \in {"fetch", "bulk", "done"} =>
           /\ ProcessedIds(sw) = sw.fetched \ sw.failed
           /\ (sw.pc = "done" /\ sw.args.sync_chat
                              /\ sw.result.elasticsearch_failed = 0) =>
                  \A m \in ProcessedIds(sw) : DocId(sw.args.channel_id, m) \in DOMAIN es

\* a backfill of two pages in which a message of the first page gave no
\* record: a message after it and a message of the second page were indexed
C26_Witness ==
    /\ rc.pc = "done"
    /\ "retained" \in DOMAIN rc
    /\ Cardinality(rc.retained) > PageLimit
    /\ Cardinality(ProcessedIds(rc)) = PageLimit
    /\ \E f \in rc.failed : \A m \in ProcessedIds(rc) : m < f
    /\ \A m \in ProcessedIds(rc) : DocId(rc.channel_id, m) \in DOMAIN es
    /\ outcome[1].elasticsearch_success = PageLimit

----------------------------------------------------------------------------
(* Media references of the two normalizers, checked under SpecNormalize *)

Events == 1..MaxEventId

\* process_message applied to one message
NormalizeBackfill(c, m, sync_images, env, t) ==
    /\ nm' = [pc |-> "done", path |-> "backfill", channel_id |-> c, message_id |-> m,
              offload |-> sync_images, env |-> env,
              record |-> ProcessMessage(c, m, sync_images, env, t)]
    /\ NormalizeOnly

\* process_single_message_enhanced applied to one message
NormalizeLive(c, m, download_images, env, t) ==
    /\ nm' = [pc |-> "done", path |-> "live", channel_id |-> c, message_id |-> m,
              offload |-> download_images, env |-> env,
              record |-> ProcessSingleMessageEnhanced(c, m, download_images, env, t)]
    /\ NormalizeOnly

NextNormalize ==
    \/ \E c \in Channels, m \in Events, sync_images \in BOOLEAN,
          env \in EnvOutcomes, t \in 0..MaxClock :
          NormalizeBackfill(c, m, sync_images, env, t)
    \/ \E c \in Channels, m \in Events, download_images \in BOOLEAN,
          env \in EnvOutcomes, t \in 0..MaxClock :
          NormalizeLive(c, m, download_images, env, t)

SpecNormalize == InitSync /\ [][NextNormalize]_vars

\* a photo or an image-typed document
SupportedMedia(m) == MediaOf(m) \in {"photo", "document_image"}

\* the marker derived from the native media id
NativeMarker(m) ==
    IF MediaOf(m) = "photo" THEN "telegram_photo_" \o ToString(m)
    ELSE "telegram_document_" \o ToString(m)

\* C27: the media references of a record are decided by the media kind and
\* the policy: none for absent media and for any kind other than a photo or
\* an image-typed document, under either policy; exactly one native marker
\* for supported media with offload disabled; the durable URL and the object
\* path channel_<c>/message_<m>.<ext> for supported media with offload
\* enabled.
C27_MediaByKindAndPolicy ==
    (nm.pc = "done" /\ nm.record # None) =>
        LET r == nm.record[1]
            c == nm.channel_id
            m == nm.message_id
        IN
        /\ ~SupportedMedia(m) => r.image_urls = <<>> /\ r.images = <<>>
        /\ (SupportedMedia(m) /\ ~nm.offload) =>
               r.image_urls = <<NativeMarker(m)>> /\ r.images = <<>>
        /\ (SupportedMedia(m) /\ nm.offload) =>
               r.image_urls = <<MinioUrl(c, m)>> /\ r.images = <<ObjectName(c, m)>>

----------------------------------------------------------------------------
(* The offset of sync_window, checked under SpecWindow *)

\* rank of a message of the channel, 1 for the newest
Rank(c, m) == 1 + Cardinality({x \in tg[c] : x > m})

\* the messages ranked offset+1 .. offset+size
RankedWindow(c, offset, size) ==
    {m \in tg[c] : Rank(c, m) \in (offset + 1)..(offset + size)}

NewestFirst(w) ==
    \A i, j \in DOMAIN w.processed_messages :
        i < j => w.processed_messages[i].message_id > w.processed_messages[j].message_id

----------------------------------------------------------------------------
(* add_channel and remove_channel against the status, under SpecListener *)

\* the step on which add_channel_task / remove_channel_task writes the status
ChanWrites == req.chan # None /\ req'.chan = None

\* C29 as stated: add_channel and remove_channel never change is_running,
\* even when they interleave with a stop request.
C29_ChannelOpsKeepIsRunning ==
    [][ChanWrites => IsRunning(GetListenerStatus') = IsRunning(GetListenerStatus)]_vars

\* C29 amended: add_channel and remove_channel write back the is_running
\* they read, so they leave it unchanged whenever the status is still the one
\* they read; and is_running turns from false to true only when a listener
\* task persists Running, when the resume writes its status, or when an
\* add_channel / remove_channel that read is_running true writes it back.
C29_ChannelOpsRestoreWhatTheyRead ==
    [][/\ ChanWrites =>
              /\ IsRunning(GetListenerStatus') = IsRunning(req.chan[1].status)
              /\ GetListenerStatus = req.chan[1].status =>
                     IsRunning(GetListenerStatus') = IsRunning(GetListenerStatus)
       /\ (~IsRunning(GetListenerStatus) /\ IsRunning(GetListenerStatus')) =>
              \/ \E t \in 1..MaxTasks : tasks[t].pc = "queued" /\ tasks'[t].pc = "running"
              \/ req.resume # None /\ req'.resume = None
              \/ ChanWrites /\ IsRunning(req.chan[1].status)]_vars

\* a stop has written the stopped status and a channel operation that read
\* it afterwards has written it back: the channel is listed, is_running is
\* still false
C29_Witness ==
    /\ status # None
    /\ resp = [op |-> "stop", status |-> "stopping"]
    /\ "stopped_at" \in DOMAIN status
    /\ "error" \notin DOMAIN status
    /\ ~IsRunning(status)
    /\ req.chan = None
    /\ monitored # {}
    /\ status.channels = monitored

\* C30: add_channel makes the id a member of the monitored set and
\* remove_channel a non-member; on completion the channel list of the status
\* is the monitored set and monitored_channels its size, so that with no
\* writer in between the status lists the id after add and not after remove.
C30_StatusListsMonitored ==
    [][/\ (req.chan = None /\ req'.chan # None) =>
              LET r == req'.chan[1] IN
              IF r.op = "add" THEN monitored' = monitored \cup {r.channel_id}
                              ELSE monitored' = monitored \ {r.channel_id}
       /\ ChanWrites =>
              LET r == req.chan[1] IN
              /\ GetListenerStatus'.channels = monitored'
              /\ GetListenerStatus'.monitored_channels = Cardinality(monitored')
              /\ monitored' = monitored
              /\ (r.op = "add" /\ r.channel_id \in monitored) =>
                     r.channel_id \in GetListenerStatus'.channels
              /\ (r.op = "remove" /\ r.channel_id \notin monitored) =>
                     r.channel_id \notin GetListenerStatus'.channels]_vars

\* add_channel has completed on a store that held no status: the status
\* lists the one channel
C30_Witness ==
    /\ req.chan = None
    /\ status = Update(DefaultStatus, [monitored_channels |-> 1, channels |-> monitored])
    /\ Cardinality(monitored) = 1

----------------------------------------------------------------------------
(* handle_new_message, checked under SpecHandler *)

\* the handler of a running listener takes an event of a channel and reads
\* the monitored set
HandleRead(t, c, m) ==
    /\ tasks[t].pc = "running"
    /\ hd.pc = "idle"
    /\ hd.count < MaxEvents
    /\ hd' = [pc |-> "read", jobs |-> hd.jobs, last |-> hd.last, count |-> hd.count,
              channel_id |-> c, message_id |-> m,
              download_images |-> tasks[t].download_images,
              monitored |-> monitored]
    /\ monitored' = monitored
    /\ HandlerOnly

\* an event whose peer is not a channel is ignored
HandleIgnore(t) ==
    /\ tasks[t].pc = "running"
    /\ hd.pc = "idle"
    /\ hd.count < MaxEvents
    /\ hd' = [hd EXCEPT !.count = @ + 1]
    /\ monitored' = monitored
    /\ HandlerOnly

\* mutant: a channel the set does not show is left out of it
HandleAddNever ==
    /\ hd.pc = "read"
    /\ monitored' = monitored
    /\ hd' = [hd EXCEPT !.pc = "added"]
    /\ HandlerOnly

\* if channel_id not in monitored: add_monitored_channel(channel_id)
HandleAdd ==
    /\ hd.pc = "read"
    /\ monitored' = IF hd.channel_id \notin hd.monitored
                    THEN monitored \cup {hd.channel_id} ELSE monitored
    /\ hd' = [hd EXCEPT !.pc = "added"]
    /\ HandlerOnly

\* the job process_message_task.delay(...) queues
Job(h) == [channel_id |-> h.channel_id, message_id |-> h.message_id,
           download_images |-> h.download_images]

\* mutant: only the events of channels the set showed are dispatched
HandleDispatchMonitoredOnly ==
    /\ hd.pc = "added"
    /\ hd' = [pc |-> "idle",
              jobs |-> IF Dispatched(hd.message_id, hd.download_images)
                          /\ hd.channel_id \in hd.monitored
                       THEN Append(hd.jobs, Job(hd)) ELSE hd.jobs,
              last |-> Some([channel_id |-> hd.channel_id,
                             message_id |-> hd.message_id,
                             download_images |-> hd.download_images,
                             unseen |-> hd.channel_id \notin hd.monitored,
                             dispatched |-> Dispatched(hd.message_id,
                                                       hd.download_images)
                                            /\ hd.channel_id \in hd.monitored]),
              count |-> hd.count + 1]
    /\ monitored' = monitored
    /\ HandlerOnly

\* the media policy filter, then the dispatch, then the handler returns
HandleDispatch ==
    /\ hd.pc = "added"
    /\ hd' = [pc |-> "idle",
              jobs |-> IF Dispatched(hd.message_id, hd.download_images)
                       THEN Append(hd.jobs, Job(hd)) ELSE hd.jobs,
              last |-> Some([channel_id |-> hd.channel_id,
                             message_id |-> hd.message_id,
                             download_images |-> hd.download_images,
                             unseen |-> hd.channel_id \notin hd.monitored,
                             dispatched |-> Dispatched(hd.message_id,
                                                       hd.download_images)]),
              count |-> hd.count + 1]
    /\ monitored' = monitored
    /\ HandlerOnly

NextHandler ==
    \/ \E d \in BOOLEAN : StartRequest(d)
    \/ \E t \in 1..MaxTasks, discovered \in SUBSET Channels : TaskStart(t, discovered)
    \/ \E t \in 1..MaxTasks, c \in Channels, m \in Events : HandleRead(t, c, m)
    \/ \E t \in 1..MaxTasks : HandleIgnore(t)
    \/ HandleAdd
    \/ HandleDispatch
    \/ \E op \in {"add", "remove"}, c \in Channels : ChanRead(op, c)
    \/ ChanWrite

SpecHandler == InitSync /\ [][NextHandler]_vars

\* the step on which the handler returns
HandlerReturns == hd.pc = "added" /\ hd'.pc = "idle"

\* C23 as stated: with download_images false an event carrying media of any
\* kind is dropped and queues no job, an event without media queues one; with
\* download_images true every channel event queues one.
C23_MediaDroppedWhenOff ==
    [][HandlerReturns =>
           IF ~hd.download_images /\ MediaOf(hd.message_id) # "none"
           THEN hd'.jobs = hd.jobs
           ELSE hd'.jobs = Append(hd.jobs, Job(hd))]_vars

\* C23 amended: with download_images false an event carrying a photo or a
\* document is dropped and queues no job, an event without media or with
\* media of another kind queues one; with download_images true every channel
\* event queues one.
C23_PhotoOrDocumentDroppedWhenOff ==
    [][HandlerReturns =>
           IF ~hd.download_images
              /\ MediaOf(hd.message_id) \in {"photo", "document_image", "document_video"}
           THEN hd'.jobs = hd.jobs
           ELSE hd'.jobs = Append(hd.jobs, Job(hd))]_vars

\* under download_images false an event with a web page preview has queued
\* its job and an event with a photo has then been dropped
C23_Witness ==
    /\ hd.pc = "idle"
    /\ Len(hd.jobs) = 1
    /\ MediaOf(hd.jobs[1].message_id) = "webpage"
    /\ ~hd.jobs[1].download_images
    /\ hd.last # None
    /\ MediaOf(hd.last[1].message_id) = "photo"
    /\ ~hd.last[1].download_images
    /\ ~hd.last[1].dispatched

\* C24 as stated: when the handler returns, the channel of its event is in
\* the monitored set.
C24_ChannelMonitoredAfterEvent ==
    [][HandlerReturns => hd.channel_id \in monitored']_vars

\* remove_channel takes channel c out of the set on this step
RemoveStep(c) ==
    /\ req.chan = None /\ req'.chan # None
    /\ req'.chan[1].op = "remove" /\ req'.chan[1].channel_id = c

\* C24 amended: the handler reads the set, adds the channel of its event
\* when that read does not show it, and only then filters and dispatches;
\* from there to its return nothing but a remove_channel for that channel
\* takes the channel out of the set, so at the return the channel is
\* monitored unless such a remove_channel ran while the event was handled.
C24_ChannelMonitoredUnlessRemoved ==
    [][/\ (hd.pc = "idle" /\ hd'.pc = "read") => hd'.monitored = monitored
       /\ (hd.pc = "read" /\ hd'.pc = "added") =>
              /\ hd.channel_id \notin hd.monitored => hd.channel_id \in monitored'
              /\ hd.channel_id \in monitored => hd.channel_id \in monitored'
              /\ hd'.jobs = hd.jobs
       /\ HandlerReturns => monitored' = monitored
       /\ (hd.pc # "idle" /\ hd.channel_id \in monitored
                          /\ hd.channel_id \notin monitored') =>
              RemoveStep(hd.channel_id)]_vars

\* the handler has returned from an event of a channel its read of the set
\* did not show: the channel is monitored though the status, written at the
\* start with no channel discovered, does not list it
C24_Witness ==
    /\ hd.pc = "idle"
    /\ hd.last # None
    /\ hd.last[1].unseen
    /\ hd.last[1].channel_id \in monitored
    /\ req.chan = None
    /\ status # None
    /\ IsRunning(status)
    /\ status.channels = {}

----------------------------------------------------------------------------
(* process_message_task, checked under SpecJobs *)

\* the broker hands a worker the job the handler queued for a posted message
Deliver(c, m, download_images) ==
    /\ m <= lastId[c]
    /\ Dispatched(m, download_images)
    /\ Len(jb.done) + Cardinality(jb.pending) < MaxRuns
    /\ jb' = [jb EXCEPT !.pending = @ \cup {[channel_id |-> c, message_id |-> m,
                                             download_images |-> download_images]}]
    /\ UNCHANGED <<tg, lastId, es, now>>
    /\ JobsOnly

\* what get_entity / get_messages(ids=id) may give for the message of a job
FetchOutcomes(c, m) ==
    {"fetch_error"} \cup (IF m \in tg[c] THEN {"found"} ELSE {"absent"})

\* mutant: the job reports the message as processed whatever happened
JobStatusProcessed(fetch, info) == "processed"

\* the status process_message_task returns
JobStatus(fetch, info) ==
    CASE fetch = "absent"      -> "message_not_found"
      [] fetch = "fetch_error" -> "error"
      [] info = None           -> "processing_failed"
      [] OTHER                 -> "processed"

\* mutant: each delivery is stored as a document of its own
StoreMessagesPerDelivery(index, written) == UpsertAutoId(index, written)

\* store_messages_elasticsearch: "_id": f"{message.channel_id}_{message.message_id}"
StoreMessages(index, written) == Upsert(index, written)

\* one run of process_message_task; the broker may deliver the job again
JobRun(j, again) ==
    /\ j \in jb.pending
    /\ Len(jb.done) < MaxRuns
    /\ \E fetch \in FetchOutcomes(j.channel_id, j.message_id), env \in EnvOutcomes :
          LET info == IF fetch = "found"
                      THEN ProcessSingleMessageEnhanced(j.channel_id, j.message_id,
                                                        j.download_images, env, now)
                      ELSE None
          IN
          \E w \in BulkWrites(IF info = None THEN {} ELSE {info[1]}) :
             /\ es' = IF info = None THEN es ELSE StoreMessages(es, w.written)
             /\ now' = IF info = None THEN now ELSE Later
             /\ jb' = [pending |-> IF again THEN jb.pending ELSE jb.pending \ {j},
                       done |-> Append(jb.done,
                                  [channel_id |-> j.channel_id,
                                   message_id |-> j.message_id,
                                   fetch |-> fetch,
                                   record |-> info # None,
                                   status |-> JobStatus(fetch, info),
                                   written |-> w.written # {}])]
    /\ UNCHANGED <<tg, lastId>>
    /\ JobsOnly

NextJobs ==
    \/ \E c \in Channels : PlatformPost(c)
    \/ \E c \in Channels, m \in MsgIds : PlatformDelete(c, m)
    \/ \E c \in Channels, m \in MsgIds, d \in BOOLEAN : Deliver(c, m, d)
    \/ \E j \in jb.pending, again \in BOOLEAN : JobRun(j, again)

SpecJobs == InitSync /\ [][NextJobs]_vars

\* the identities of the runs that wrote their document
WrittenIdentities ==
    {DocId(jb.done[i].channel_id, jb.done[i].message_id) :
        i \in {k \in DOMAIN jb.done : jb.done[k].written}}

\* C31: the identities in the index are those of the jobs that wrote their
\* document, whatever the order in which the jobs ran and however many times
\* the same job was delivered: the index holds one document per identity.
C31_IdentitiesIndependentOfOrder ==
    /\ DOMAIN es = WrittenIdentities
    /\ \A d \in DOMAIN es : d = DocId(es[d].channel_id, es[d].message_id)

\* two jobs ran newest first and one of them was delivered twice: three runs
\* wrote, the index holds two documents
C31_Witness ==
    /\ jb.pending = {}
    /\ Len(jb.done) = 3
    /\ \A i \in 1..3 : jb.done[i].written
    /\ jb.done[1].message_id > jb.done[2].message_id
    /\ jb.done[3].message_id = jb.done[1].message_id
    /\ Cardinality(DOMAIN es) = 2

\* the step of one run of the job
JobRuns == Len(jb'.done) = Len(jb.done) + 1

\* C37: a run of process_message_task changes at most the document whose
\* identity is the (channel_id, message_id) of its event; when the message
\* is absent, its fetch fails or normalization gives no record, the run
\* leaves the index as it was and returns a status other than "processed".
C37_JobWritesItsDocumentOnly ==
    [][JobRuns =>
           LET r == jb'.done[Len(jb'.done)]
               d == DocId(r.channel_id, r.message_id)
           IN
           /\ DOMAIN es \subseteq DOMAIN es'
           /\ DOMAIN es' \subseteq DOMAIN es \cup {d}
           /\ \A x \in DOMAIN es : x # d => es'[x] = es[x]
           /\ r.status \in {"processed", "message_not_found", "error", "processing_failed"}
           /\ (r.fetch # "found" \/ ~r.record) =>
                  /\ es' = es
                  /\ r.status # "processed"
           /\ r.status = "message_not_found" <=> r.fetch = "absent"]_vars

\* a run for a deleted message returned message_not_found, a run whose
\* normalization gave no record returned processing_failed, a third run
\* wrote its document: the index holds that document only
C37_Witness ==
    /\ Len(jb.done) = 3
    /\ jb.done[1].status = "message_not_found"
    /\ jb.done[2].status = "processing_failed"
    /\ jb.done[3].status = "processed" /\ jb.done[3].written
    /\ DOMAIN es = {DocId(jb.done[3].channel_id, jb.done[3].message_id)}

----------------------------------------------------------------------------
(* The progress of smart_sync_task, checked under SpecSched *)

\* a task that found channels has reported 0 and then each completion
ReportsCountCompletions ==
    (sem.pc \in {"running", "done"} /\ sem.total > 0) =>
        /\ Len(sem.reports) = sem.completed + 1
        /\ Len(sem.results) = sem.completed
        /\ \A i \in DOMAIN sem.reports :
               /\ sem.reports[i].current = i - 1
               /\ sem.reports[i].total = sem.total
        /\ sem.pc = "done" =>
               sem.reports[Len(sem.reports)].current = sem.total

\* C32: reconcile_all reports current = 0 before any unit completes and then
\* once after each completion, current growing by exactly 1 each time; the
\* unit counted is the one that completed, whatever its place in the
\* submission order, and the last report has current = total = the number
\* of channels.
C32_ProgressPerCompletion ==
    /\ []ReportsCountCompletions
    /\ [][(sem.pc = "running" /\ sem'.pc = "running"
           /\ sem'.completed # sem.completed) =>
              \E u \in 1..sem.total :
                 /\ sem.unit[u] = "finished" /\ sem'.unit[u] = "collected"
                 /\ sem'.completed = sem.completed + 1
                 /\ sem'.results = Append(sem.results, sem.returned[u][1])
                 /\ sem'.reports = Append(sem.reports,
                        SmartUpdateProgress(sem.completed + 1, sem.total))]_vars

\* three channels under max_parallel 2 have completed last-submitted first:
\* four reports, the last with current = total = 3
C32_Witness ==
    /\ sem.pc = "done"
    /\ sem.total = 3
    /\ sem.max_parallel = 2
    /\ Len(sem.reports) = 4
    /\ sem.reports[4] = [current |-> 3, total |-> 3, percentage |-> 100]
    /\ sem.results[1].channel_id > sem.results[2].channel_id

----------------------------------------------------------------------------
(* A bulk request that fails, checked under SpecSync *)

\* C33: the bulk upsert of a backfill that is not cancelled, failed wholly
\* or partly or not at all, ends the call with counts only: index success +
\* index failed is the
\* number of records submitted, and the outcome keeps the action of the
\* reconcile (full_sync or incremental_sync) with success = true.
C33_BulkFailureIsCounted ==
    [][(rc.pc = "bulk" /\ rc' # rc /\ rc'.pc # "idle") =>
           /\ rc'.pc = "done"
           /\ outcome' # None
           /\ LET o == outcome'[1] IN
              /\ o.elasticsearch_success + o.elasticsearch_failed
                     = Len(rc.processed_messages)
              /\ o.messages_processed = Len(rc.processed_messages)
              /\ o.action = rc.action
              /\ o.action \in {"full_sync", "incremental_sync"}
              /\ o.success]_vars

\* an incremental sync submitted two records and the request failed after
\* one of them was stored: both are counted failed, the outcome is a success
C33_Witness ==
    /\ rc.pc = "done"
    /\ outcome # None
    /\ "elasticsearch_failed" \in DOMAIN outcome[1]
    /\ outcome[1].action = "incremental_sync"
    /\ outcome[1].success
    /\ outcome[1].elasticsearch_failed = 2
    /\ outcome[1].elasticsearch_success = 0
    /\ Cardinality({m \in ProcessedIds(rc) : DocId(rc.channel_id, m) \in DOMAIN es}) = 1

----------------------------------------------------------------------------
(* The success flag of the outcomes, checked under SpecSched *)

\* C39: a channel whose last id on the platform is unobtainable yields a
\* skip with success = false and is counted in channels_failed; every other
\* skip and every full_sync and incremental_sync has success = true, every
\* error has success = false.
C39_SuccessFlags ==
    /\ "returned" \in DOMAIN sem =>
           \A u \in DOMAIN sem.returned :
               sem.returned[u] # None =>
                   LET o == sem.returned[u][1] IN
                   /\ sem.kind[u] = "inaccessible" =>
                          o.action = "skip" /\ ~o.success
                   /\ (o.action = "skip" /\ sem.kind[u] # "inaccessible") => o.success
                   /\ o.action \in {"full_sync", "incremental_sync"} => o.success
                   /\ o.action = "error" => ~o.success
    /\ (sem.pc = "done" /\ sem.total > 0) =>
           /\ sem.result[1].channels_failed =
                  Cardinality({u \in DOMAIN sem.kind :
                                  sem.kind[u] \in {"inaccessible", "exception"}})
           /\ sem.result[1].channels_successful =
                  Cardinality({u \in DOMAIN sem.kind :
                                  sem.kind[u] \in {"equal", "full_sync", "incremental_sync"}})

\* two channels: one inaccessible, one whose ids are equal; both are skips,
\* one is counted failed and one successful
C39_Witness ==
    /\ sem.pc = "done"
    /\ sem.total = 2
    /\ sem.kind[1] = "inaccessible" /\ sem.kind[2] = "equal"
    /\ sem.result[1].actions_summary = [skip |-> 2]
    /\ sem.result[1].channels_failed = 1
    /\ sem.result[1].channels_successful = 1

----------------------------------------------------------------------------
(* has_more of sync_window, checked under SpecWindow *)

\* C38: sync_window never keeps more than size records, and its has_more is
\* true exactly when it kept size records, whether or not an older message
\* is left: false whenever it kept fewer.
C38_HasMoreIffSizeReached ==
    /\ sw.pc \in {"fetch", "bulk", "done"} => Len(sw.processed_messages) <= sw.args.size
    /\ sw.pc = "done" =>
           /\ sw.result.messages_processed = Len(sw.processed_messages)
           /\ sw.result.has_more <=> (sw.result.messages_processed = sw.args.size)
           /\ sw.result.messages_processed < sw.args.size => ~sw.result.has_more

\* a window of two on a channel of exactly two messages: both are processed,
\* nothing older is left, has_more is true
C38_Witness ==
    /\ sw.pc = "done"
    /\ sw.args.size = 2 /\ sw.args.offset = 0
    /\ tg[sw.args.channel_id] = ProcessedIds(sw)
    /\ Cardinality(ProcessedIds(sw)) = 2
    /\ sw.result.has_more

----------------------------------------------------------------------------
(* The two normalizers compared, checked under SpecNormalize *)

\* what the other normalizer gives for the arguments of the last call
OtherRecord ==
    IF nm.path = "backfill"
    THEN ProcessSingleMessageEnhanced(nm.channel_id, nm.message_id, nm.offload,
                                      nm.env, 0)
    ELSE ProcessMessage(nm.channel_id, nm.message_id, nm.offload, nm.env, 0)

\* C35: for one message, channel and media policy the two normalizers both
\* give no record, or give records with the same identity, sender_name and
\* media references, a failed media download included.
C35_NormalizersAgree ==
    nm.pc = "done" =>
        /\ nm.record = None <=> OtherRecord = None
        /\ nm.record # None =>
               /\ nm.record[1].channel_id = OtherRecord[1].channel_id
               /\ nm.record[1].message_id = OtherRecord[1].message_id
               /\ nm.record[1].sender_name = OtherRecord[1].sender_name
               /\ nm.record[1].image_urls = OtherRecord[1].image_urls
               /\ nm.record[1].images = OtherRecord[1].images

----------------------------------------------------------------------------
(* Events of a channel that was removed, checked under SpecHandler *)

\* C36: the monitored set does not filter the events: the handler queues the
\* job of an event by the media policy alone, whether or not its read of the
\* set showed the channel, and puts a channel the read did not show, one
\* that remove_channel took out included, back into the set.
C36_RemovedChannelStillIngested ==
    [][/\ (hd.pc = "read" /\ hd'.pc = "added" /\ hd.channel_id \notin hd.monitored) =>
              hd.channel_id \in monitored'
       /\ HandlerReturns =>
              /\ hd'.last[1].unseen = (hd.channel_id \notin hd.monitored)
              /\ hd'.last[1].dispatched = Dispatched(hd.message_id, hd.download_images)
              /\ hd'.jobs = IF Dispatched(hd.message_id, hd.download_images)
                            THEN Append(hd.jobs, Job(hd)) ELSE hd.jobs]_vars

\* the status is the one a remove_channel wrote, with an empty channel list
\* (no listener start and no stop has written since); an event of the
\* channel found the set without it, was dispatched, and the channel is in
\* the set again
C36_Witness ==
    /\ hd.pc = "idle"
    /\ hd.last # None
    /\ hd.last[1].unseen
    /\ hd.last[1].dispatched
    /\ Len(hd.jobs) = 1
    /\ hd.last[1].channel_id \in monitored
    /\ req.chan = None
    /\ status # None
    /\ "task_id" \notin DOMAIN status
    /\ "stopped_at" \notin DOMAIN status
    /\ status.channels = {}

----------------------------------------------------------------------------
(* Start and stop requests issued one after another: SpecSequential *)

\* a start request is issued only while no stop request is between its read
\* and its write; no resume (the process is not restarted), no channel task
NextSequential ==
    \/ Tick
    \/ \E d \in BOOLEAN : req.stop = None /\ StartRequest(d)
    \/ \E t \in 1..MaxTasks, discovered \in SUBSET Channels : TaskStart(t, discovered)
    \/ \E t \in 1..MaxTasks : TaskPoll(t)
    \/ \E t \in 1..MaxTasks : TaskFail(t)
    \/ StopRead
    \/ StopWrite

SpecSequential == InitSync /\ [][NextSequential]_vars

\* the listener loops that are running
RunningLoops == {t \in 1..MaxTasks : tasks[t].pc = "running"}

\* C34: with start and stop requests issued strictly one after another, at
\* most one listener loop is running at any time.
C34_AtMostOneLoop == Cardinality(RunningLoops) <= 1

====
